---------------------------- MODULE Spec2Model ----------------------------
(***************************************************************************)
(* KM-Eval: record reconciliation and state-transition validation.         *)
(*                                                                         *)
(* Five specifications share this module.                                  *)
(*   Spec       load_state_transitions_file, one step per line of the      *)
(*              file, then the end-of-file check.                          *)
(*   SpecDir    load_directory, one step per file of the directory, each   *)
(*              .jsonl file loaded by load_jsonl_file and merged into the  *)
(*              accumulated mapping, task_metadata.csv loaded by           *)
(*              load_csv_file, every other file passed over.               *)
(*   SpecJsonl  one call of load_jsonl_file: the file type identified      *)
(*              from the first line, then the file loaded.                 *)
(*   SpecCsv    one call of load_csv_file: the header verified, then a     *)
(*              data row converted and stored.                             *)
(*   SpecFilter one call of filter_jsonl_input: the three filters in turn. *)
(*                                                                         *)
(* The values the loaders only type-check are tagged with their Python     *)
(* class, [py_type, value].                                                *)
(* Identifiers (subject_id, task_id) are sequences of tokens, so that the  *)
(* key string "{subject}_{condition}_{task}" is their concatenation with   *)
(* "_" tokens.  Timestamps are ISO texts [clock, utcoffset, valid]; the    *)
(* parsed datetime is the instant clock - utcoffset, in seconds.           *)
(***************************************************************************)
EXTENDS Integers, Sequences, FiniteSets, TLC

VARIABLES
    lines,               \* the lines of the State-Transition file accepted so far
    line_no,             \* 1-based number of the next line to read
    subject_task_state,  \* key -> most recently seen event of the key
    state_transitions,   \* key -> record being built for the key
    pc,                  \* "reading" | "returned" | "raised"
    err,                 \* the error raised ("" when none)
    result,              \* the mapping returned to the caller (empty unless returned)
    dir_files,           \* the directory: filename -> lines of the file
    visited,             \* filenames visited so far, in visitation order
    jsonl_contents,      \* key -> accumulated record (load_directory)
    warnings,            \* set of consistency warnings printed so far
    dpc,                 \* "idle" | "listing" | "returned" | "raised"
    derr,                \* the error load_directory raised ([kind |-> "none"] when none)
    csv_metadata,        \* task id -> attributes read from task_metadata.csv
    call_args,           \* the arguments of the single call under way (<<>> when none)
    call_out,            \* what that call has produced so far (<<>> when nothing)
    call_pc              \* the position of that call ("idle" when none)

loader_vars == <<lines, line_no, subject_task_state, state_transitions, pc, err, result>>
dir_vars    == <<dir_files, visited, jsonl_contents, warnings, dpc, derr, csv_metadata>>
call_vars   == <<call_args, call_out, call_pc>>
vars        == <<lines, line_no, subject_task_state, state_transitions, pc, err, result,
                 dir_files, visited, jsonl_contents, warnings, dpc, derr, csv_metadata,
                 call_args, call_out, call_pc>>

---------------------------------------------------------------------------
(* Bounds of the model *)

MaxLines == 4
MaxTime == 3
MaxFiles == 3

---------------------------------------------------------------------------
(* validate_utils.py: vocabulary *)

conditions == {"prototype", "baseline"}

state_ids == {"task_initialized", "task_execution", "km_push_activity",
              "km_pull_activity", "task_conclusion"}

initial_state_id == "task_initialized"

valid_state_transitions_selfloop ==
    { <<"task_initialized", "task_execution">>,
      <<"task_initialized", "km_pull_activity">>,
      <<"task_initialized", "km_push_activity">>,
      <<"task_initialized", "task_conclusion">>,
      <<"task_execution", "task_execution">>,
      <<"task_execution", "km_push_activity">>,
      <<"km_push_activity", "task_execution">>,
      <<"km_push_activity", "km_pull_activity">>,
      <<"km_push_activity", "task_conclusion">>,
      <<"km_pull_activity", "km_push_activity">>,
      <<"km_pull_activity", "task_execution">>,
      <<"km_pull_activity", "task_conclusion">>,
      <<"task_execution", "km_pull_activity">>,
      <<"task_execution", "task_conclusion">>,
      <<"km_pull_activity", "km_pull_activity">> }

\* The edge table without the self-loop on task_execution.
valid_state_transitions_no_selfloop ==
    { <<"task_initialized", "task_execution">>,
      <<"task_initialized", "km_pull_activity">>,
      <<"task_initialized", "km_push_activity">>,
      <<"task_initialized", "task_conclusion">>,
      <<"task_execution", "km_push_activity">>,
      <<"km_push_activity", "task_execution">>,
      <<"km_push_activity", "km_pull_activity">>,
      <<"km_push_activity", "task_conclusion">>,
      <<"km_pull_activity", "km_push_activity">>,
      <<"km_pull_activity", "task_execution">>,
      <<"km_pull_activity", "task_conclusion">>,
      <<"task_execution", "km_pull_activity">>,
      <<"task_execution", "task_conclusion">> }

\* The edge table with a way back from task_conclusion to task_initialized.
valid_state_transitions_restart ==
    { <<"task_initialized", "task_execution">>,
      <<"task_initialized", "km_pull_activity">>,
      <<"task_initialized", "km_push_activity">>,
      <<"task_initialized", "task_conclusion">>,
      <<"task_execution", "task_execution">>,
      <<"task_execution", "km_push_activity">>,
      <<"km_push_activity", "task_execution">>,
      <<"km_push_activity", "km_pull_activity">>,
      <<"km_push_activity", "task_conclusion">>,
      <<"km_pull_activity", "km_push_activity">>,
      <<"km_pull_activity", "task_execution">>,
      <<"km_pull_activity", "task_conclusion">>,
      <<"task_execution", "km_pull_activity">>,
      <<"task_execution", "task_conclusion">>,
      <<"task_conclusion", "task_initialized">> }

valid_state_transitions ==
    { <<"task_initialized", "task_execution">>,
      <<"task_initialized", "km_pull_activity">>,
      <<"task_initialized", "km_push_activity">>,
      <<"task_initialized", "task_conclusion">>,
      <<"task_execution", "task_execution">>,
      <<"task_execution", "km_push_activity">>,
      <<"km_push_activity", "task_execution">>,
      <<"km_push_activity", "km_pull_activity">>,
      <<"km_push_activity", "task_conclusion">>,
      <<"km_pull_activity", "km_push_activity">>,
      <<"km_pull_activity", "task_execution">>,
      <<"km_pull_activity", "task_conclusion">>,
      <<"task_execution", "km_pull_activity">>,
      <<"task_execution", "task_conclusion">> }

\* Field tables, in declaration order (the presence checks iterate in this order).
state_transition_schema ==
    <<"subject_id", "condition", "task_id", "utc_timestamp", "state_id", "optional_content">>

subject_task_schema ==
    <<"subject_id", "condition", "task_id", "task_start_time", "task_total_time",
      "km_pull_total_time", "km_push_total_time", "task_grade",
      "corpus_knowledge_nugget_count", "expert_captured_knowledge_nugget_count",
      "nugget_content", "task_timeout", "optional_content">>

---------------------------------------------------------------------------
(* validate_utils.py: checks.  Each operator is TRUE when the Python        *)
(* function returns normally and FALSE when it raises.                      *)

\* datetime.fromisoformat: raises on a malformed text.
IsoStrParses(iso_str) == iso_str.valid

\* The parsed datetime, as an instant: wall clock minus the UTC offset.
iso_str_as_datetime(iso_str) == iso_str.clock - iso_str.utcoffset

\* The required fields the input lacks, with no field exempt.
MissingFields_no_exemption(schema, input) ==
    SelectSeq(schema, LAMBDA attr : attr \notin DOMAIN input)

\* The required fields of a schema that the input lacks, in schema order.
MissingFields(schema, input) ==
    SelectSeq(schema, LAMBDA attr : attr \notin DOMAIN input /\ attr # "optional_content")

verify_all_state_transition_fields_present(state_transition_input) ==
    MissingFields(state_transition_schema, state_transition_input) = <<>>

verify_all_subject_task_fields_present(subject_task_input) ==
    MissingFields(subject_task_schema, subject_task_input) = <<>>

\* A JSON value of a field the loaders never compute with, tagged with the Python
\* class json.loads gives it.
JsonValue(py_type, value) == [py_type |-> py_type, value |-> value]

\* The fields whose values are tagged; the other fields hold what the loaders
\* compute with: token sequences (str) for the identifiers, a datetime once the
\* timestamp is parsed, whole seconds (int) for the totals.
JsonValued ==
    { "task_grade", "corpus_knowledge_nugget_count",
      "expert_captured_knowledge_nugget_count", "nugget_content", "task_timeout",
      "optional_content" }

\* The Python class of the value a record holds under attr.
TypeOf(attr, value) ==
    IF attr \in JsonValued THEN value.py_type
    ELSE IF attr \in {"subject_id", "task_id"} THEN "str"
    ELSE IF attr \in {"utc_timestamp", "task_start_time"} THEN "datetime"
    ELSE "int"

\* The classes the schema tables declare, for the fields checked by isinstance
\* (state_id and condition are checked by membership before the table is read).
state_transition_types ==
    [ subject_id |-> {"str", "int"}, task_id |-> {"str", "int"},
      utc_timestamp |-> {"datetime"}, optional_content |-> {"dict"} ]

subject_task_types ==
    [ subject_id |-> {"str", "int"}, task_id |-> {"str", "int"},
      task_start_time |-> {"datetime"}, task_total_time |-> {"float", "int"},
      km_pull_total_time |-> {"float", "int"},
      km_push_total_time |-> {"float", "int"},
      task_grade |-> {"str", "int", "float"},
      corpus_knowledge_nugget_count |-> {"int"},
      expert_captured_knowledge_nugget_count |-> {"int"},
      nugget_content |-> {"list"}, task_timeout |-> {"bool"},
      optional_content |-> {"dict"} ]

\* Python's isinstance: bool is a subclass of int.
isinstance(py_type, classes) ==
    py_type \in classes \/ (py_type = "bool" /\ "int" \in classes)

\* The type check with the KeyError of an undeclared field left uncaught.
type_check_subject_task_fields_rejects_undeclared(subject_task_input) ==
    \A attr \in DOMAIN subject_task_input :
        IF attr = "condition" THEN subject_task_input[attr] \in conditions
        ELSE /\ attr \in DOMAIN subject_task_types
             /\ isinstance(TypeOf(attr, subject_task_input[attr]),
                           subject_task_types[attr])

\* The loop over the input's own fields: the enumerated fields are checked by
\* membership, every other field by isinstance against its table entry, and a
\* field without an entry (KeyError) is passed over.
type_check_state_transition_fields(state_transition_input) ==
    \A attr \in DOMAIN state_transition_input :
        IF attr = "state_id" THEN state_transition_input[attr] \in state_ids
        ELSE IF attr = "condition" THEN state_transition_input[attr] \in conditions
        ELSE attr \in DOMAIN state_transition_types
                 => isinstance(TypeOf(attr, state_transition_input[attr]),
                               state_transition_types[attr])

type_check_subject_task_fields(subject_task_input) ==
    \A attr \in DOMAIN subject_task_input :
        IF attr = "condition" THEN subject_task_input[attr] \in conditions
        ELSE attr \in DOMAIN subject_task_types
                 => isinstance(TypeOf(attr, subject_task_input[attr]),
                               subject_task_types[attr])

\* The ordering check without the exemption of task_initialized.
verify_timestamps_inorder_strict(timestamp_1, timestamp_2, previous_state_id) ==
    ~(timestamp_1 >= timestamp_2)

verify_timestamps_inorder(timestamp_1, timestamp_2, previous_state_id) ==
    ~(timestamp_1 >= timestamp_2 /\ previous_state_id # initial_state_id)

verify_state_transition_valid(state_id_1, state_id_2) ==
    <<state_id_1, state_id_2>> \in valid_state_transitions

\* The check of the first state left out.
verify_first_state_is_task_initialized_skipped(transitions) == TRUE

verify_first_state_is_task_initialized(transitions) ==
    transitions[1].state_id = "task_initialized"

verify_last_state_is_task_conclusion_skipped(transitions) == TRUE

verify_last_state_is_task_conclusion(transitions) ==
    transitions[Len(transitions)].state_id = "task_conclusion"

---------------------------------------------------------------------------
(* file_utils.py: load_state_transitions_file *)

\* f"{subject_id}_{condition}_{task_id}"
Identifier(json_in) ==
    json_in.subject_id \o <<"_", json_in.condition, "_">> \o json_in.task_id

EmptyMap == [k \in {} |-> 0]

Put(map, key, value) ==
    [k \in (DOMAIN map) \cup {key} |-> IF k = key THEN value ELSE map[k]]

\* Lines 289-296 with the elapsed time attributed to the state entered.
AccumulateTimes_entered(record, previous_state, json_in) ==
    LET elapsed_time == json_in.utc_timestamp - previous_state.utc_timestamp
    IN  [record EXCEPT
            !.task_total_time = @ + elapsed_time,
            !.km_pull_total_time =
                IF json_in.state_id = "km_pull_activity" THEN @ + elapsed_time ELSE @,
            !.km_push_total_time =
                IF json_in.state_id = "km_push_activity" THEN @ + elapsed_time ELSE @]

\* Lines 289-296: the elapsed time since the key's previous event is added to the
\* total, and to the pull / push total when the previous state is that activity.
\* Lines 288-296 with the time spent in task_initialized left out of the total.
AccumulateTimes_after_initialized(record, previous_state, json_in) ==
    LET elapsed_time == json_in.utc_timestamp - previous_state.utc_timestamp
    IN  [record EXCEPT
            !.task_total_time =
                IF previous_state.state_id = "task_initialized" THEN @ ELSE @ + elapsed_time,
            !.km_pull_total_time =
                IF previous_state.state_id = "km_pull_activity" THEN @ + elapsed_time ELSE @,
            !.km_push_total_time =
                IF previous_state.state_id = "km_push_activity" THEN @ + elapsed_time ELSE @]

AccumulateTimes(record, previous_state, json_in) ==
    LET elapsed_time == json_in.utc_timestamp - previous_state.utc_timestamp
    IN  [record EXCEPT
            !.task_total_time = @ + elapsed_time,
            !.km_pull_total_time =
                IF previous_state.state_id = "km_pull_activity" THEN @ + elapsed_time ELSE @,
            !.km_push_total_time =
                IF previous_state.state_id = "km_push_activity" THEN @ + elapsed_time ELSE @]

\* Lines 276-285: the record of a key seen for the first time.
NewRecord(json_in) ==
    [ subject_id         |-> json_in.subject_id,
      condition          |-> json_in.condition,
      task_id            |-> json_in.task_id,
      task_start_time    |-> json_in.utc_timestamp,
      task_total_time    |-> 0,
      km_pull_total_time |-> 0,
      km_push_total_time |-> 0,
      state_transitions  |-> <<>> ]

\* The validation of one line with the edge check made before the ordering check.
LineError_edge_first(sts, raw) ==
    IF ~verify_all_state_transition_fields_present(raw) THEN "missing_field"
    ELSE IF ~IsoStrParses(raw.utc_timestamp) THEN "parse_error"
    ELSE LET json_in == [raw EXCEPT !.utc_timestamp = iso_str_as_datetime(@)]
             key == Identifier(json_in)
         IN  IF ~type_check_state_transition_fields(json_in) THEN "type_error"
             ELSE IF key \in DOMAIN sts
             THEN LET previous_state == sts[key]
                  IN  IF ~verify_state_transition_valid(previous_state.state_id,
                                                        json_in.state_id)
                      THEN "invalid_transition"
                      ELSE IF ~verify_timestamps_inorder(previous_state.utc_timestamp,
                                                         json_in.utc_timestamp,
                                                         previous_state.state_id)
                      THEN "out_of_order"
                      ELSE ""
             ELSE IF ~verify_first_state_is_task_initialized(<<json_in>>)
                  THEN "invalid_initial_state"
                  ELSE ""

\* The error the validation of one line raises, "" when it raises none
\* (lines 255-286, in the order the checks run).
LineError(sts, raw) ==
    IF ~verify_all_state_transition_fields_present(raw) THEN "missing_field"
    ELSE IF ~IsoStrParses(raw.utc_timestamp) THEN "parse_error"
    ELSE LET json_in == [raw EXCEPT !.utc_timestamp = iso_str_as_datetime(@)]
             key == Identifier(json_in)
         IN  IF ~type_check_state_transition_fields(json_in) THEN "type_error"
             ELSE IF key \in DOMAIN sts
             THEN LET previous_state == sts[key]
                  IN  IF ~verify_timestamps_inorder(previous_state.utc_timestamp,
                                                    json_in.utc_timestamp,
                                                    previous_state.state_id)
                      THEN "out_of_order"
                      ELSE IF ~verify_state_transition_valid(previous_state.state_id,
                                                             json_in.state_id)
                      THEN "invalid_transition"
                      ELSE ""
             ELSE IF ~verify_first_state_is_task_initialized(<<json_in>>)
                  THEN "invalid_initial_state"
                  ELSE ""

\* The loop body with one previous event remembered for the whole file instead of
\* one per key.
StepLine_single_previous(ld, raw) ==
    LET json_in == [raw EXCEPT !.utc_timestamp = iso_str_as_datetime(@)]
        key == Identifier(json_in)
        seen == key \in DOMAIN ld.subject_task_state
        record0 == IF seen THEN ld.state_transitions[key] ELSE NewRecord(json_in)
        record1 == IF seen
                   THEN AccumulateTimes(record0, ld.subject_task_state[key], json_in)
                   ELSE record0
        record2 == [record1 EXCEPT !.state_transitions = Append(@, json_in)]
    IN  [ line_no |-> ld.line_no + 1,
          subject_task_state |->
              Put(EmptyMap, key,
                  [ utc_timestamp |-> json_in.utc_timestamp,
                    state_id      |-> json_in.state_id,
                    line_no       |-> ld.line_no ]),
          state_transitions |-> Put(ld.state_transitions, key, record2) ]

\* One iteration of the while loop (lines 251-305) on an accepted line:
\* the loader's state [line_no, subject_task_state, state_transitions] after it.
\* The loop body with the sequence of a key kept sorted by timestamp, and
\* task_start_time the earliest timestamp of the key.
StepLine_sorted_by_timestamp(ld, raw) ==
    LET json_in == [raw EXCEPT !.utc_timestamp = iso_str_as_datetime(@)]
        key == Identifier(json_in)
        seen == key \in DOMAIN ld.subject_task_state
        record0 == IF seen THEN ld.state_transitions[key] ELSE NewRecord(json_in)
        record1 == IF seen
                   THEN AccumulateTimes(record0, ld.subject_task_state[key], json_in)
                   ELSE record0
        before == SelectSeq(record1.state_transitions,
                            LAMBDA e : e.utc_timestamp <= json_in.utc_timestamp)
        after == SelectSeq(record1.state_transitions,
                           LAMBDA e : e.utc_timestamp > json_in.utc_timestamp)
        sorted == before \o <<json_in>> \o after
        record2 == [record1 EXCEPT !.state_transitions = sorted,
                                   !.task_start_time = sorted[1].utc_timestamp]
    IN  [ line_no |-> ld.line_no + 1,
          subject_task_state |->
              Put(ld.subject_task_state, key,
                  [ utc_timestamp |-> json_in.utc_timestamp,
                    state_id      |-> json_in.state_id,
                    line_no       |-> ld.line_no ]),
          state_transitions |-> Put(ld.state_transitions, key, record2) ]

StepLine(ld, raw) ==
    LET json_in == [raw EXCEPT !.utc_timestamp = iso_str_as_datetime(@)]
        key == Identifier(json_in)
        seen == key \in DOMAIN ld.subject_task_state
        record0 == IF seen THEN ld.state_transitions[key] ELSE NewRecord(json_in)
        record1 == IF seen
                   THEN AccumulateTimes(record0, ld.subject_task_state[key], json_in)
                   ELSE record0
        record2 == [record1 EXCEPT !.state_transitions = Append(@, json_in)]
    IN  [ line_no |-> ld.line_no + 1,
          subject_task_state |->
              Put(ld.subject_task_state, key,
                  [ utc_timestamp |-> json_in.utc_timestamp,
                    state_id      |-> json_in.state_id,
                    line_no       |-> ld.line_no ]),
          state_transitions |-> Put(ld.state_transitions, key, record2) ]

\* Lines 308-312 with the check passed as soon as one key ends in task_conclusion.
FinalError_one_key_suffices(sts) ==
    IF /\ DOMAIN sts # {}
       /\ \A key \in DOMAIN sts :
             ~verify_last_state_is_task_conclusion(sts[key].state_transitions)
    THEN "invalid_final_state"
    ELSE ""

\* Lines 308-312: the end-of-file check over every key of the file.
FinalError(sts) ==
    IF \E key \in DOMAIN sts :
          ~verify_last_state_is_task_conclusion(sts[key].state_transitions)
    THEN "invalid_final_state"
    ELSE ""

---------------------------------------------------------------------------
(* The lines a State-Transition file may hold *)

SubjectIds == { <<"U1">> }
TaskIds == { <<"T1">>, <<"T2">> }

IsoText(clock, utcoffset) == [clock |-> clock, utcoffset |-> utcoffset, valid |-> TRUE]

MalformedIsoText == [clock |-> 0, utcoffset |-> 0, valid |-> FALSE]

Event(subject, condition, task, text, state) ==
    [ subject_id |-> subject, condition |-> condition, task_id |-> task,
      utc_timestamp |-> text, state_id |-> state ]

\* The session under study: every state at every clock 0..MaxTime, offset +00:00.
SessionEvents ==
    { Event(<<"U1">>, "prototype", <<"T1">>, IsoText(c, 0), st) :
        c \in 0..MaxTime, st \in state_ids }

\* A second session interleaved in the same file, with a smaller vocabulary: its
\* texts are 00:00+00:00 (instant 0) and 00:00-01:00 (instant 1).
OtherSessionEvents ==
    { Event(<<"U1">>, "prototype", <<"T2">>, ts, st) :
        ts \in { IsoText(0, 0), IsoText(0, -1) },
        st \in { "task_initialized", "km_push_activity", "task_conclusion" } }

WellFormedEvents == SessionEvents \cup OtherSessionEvents

BaseEvent ==
    [ subject_id |-> <<"U1">>, condition |-> "prototype", task_id |-> <<"T1">>,
      utc_timestamp |-> IsoText(MaxTime, 0), state_id |-> "task_conclusion" ]

MalformedEvents ==
    { [BaseEvent EXCEPT !.state_id = "task_paused"],
      [BaseEvent EXCEPT !.condition = "control"],
      [BaseEvent EXCEPT !.utc_timestamp = MalformedIsoText],
      [ subject_id |-> <<"U1">>, condition |-> "prototype", task_id |-> <<"T1">>,
        utc_timestamp |-> IsoText(MaxTime, 0) ] }

RawLines == WellFormedEvents \cup MalformedEvents

---------------------------------------------------------------------------
(* Spec: load_state_transitions_file, line by line *)

NoError == [kind |-> "none"]

CallIdle ==
    /\ call_args = <<>>
    /\ call_out = <<>>
    /\ call_pc = "idle"

DirIdle ==
    /\ dir_files = EmptyMap
    /\ visited = <<>>
    /\ jsonl_contents = EmptyMap
    /\ warnings = {}
    /\ dpc = "idle"
    /\ derr = NoError
    /\ csv_metadata = EmptyMap

Init ==
    /\ lines = <<>>
    /\ line_no = 1
    /\ subject_task_state = EmptyMap
    /\ state_transitions = EmptyMap
    /\ pc = "reading"
    /\ err = ""
    /\ result = EmptyMap
    /\ DirIdle
    /\ CallIdle

\* The loop body on a line that passes every check.
AcceptLine ==
    /\ pc = "reading"
    /\ Len(lines) < MaxLines
    /\ \E raw \in RawLines :
         /\ LineError(subject_task_state, raw) = ""
         /\ LET ld == StepLine([ line_no |-> line_no,
                                 subject_task_state |-> subject_task_state,
                                 state_transitions |-> state_transitions ], raw)
            IN  /\ line_no' = ld.line_no
                /\ subject_task_state' = ld.subject_task_state
                /\ state_transitions' = ld.state_transitions
         /\ lines' = Append(lines, raw)
    /\ UNCHANGED <<pc, err, result>>
    /\ UNCHANGED <<dir_vars, call_vars>>

\* The loop body on a line that fails a check: the exception leaves the function
\* (line_no is then the number of the offending line).
RejectLine ==
    /\ pc = "reading"
    /\ Len(lines) < MaxLines
    /\ \E raw \in RawLines :
         /\ LineError(subject_task_state, raw) # ""
         /\ err' = LineError(subject_task_state, raw)
    /\ pc' = "raised"
    /\ UNCHANGED <<lines, line_no, subject_task_state, state_transitions, result>>
    /\ UNCHANGED <<dir_vars, call_vars>>

\* readline returns "": the final-state check, then the return.
EndOfFile ==
    /\ pc = "reading"
    /\ IF FinalError(state_transitions) = ""
       THEN /\ pc' = "returned"
            /\ result' = state_transitions
            /\ err' = err
       ELSE /\ pc' = "raised"
            /\ err' = FinalError(state_transitions)
            /\ result' = result
    /\ UNCHANGED <<lines, line_no, subject_task_state, state_transitions>>
    /\ UNCHANGED <<dir_vars, call_vars>>

Next == AcceptLine \/ RejectLine \/ EndOfFile

Spec == Init /\ [][Next]_vars

---------------------------------------------------------------------------
(* file_utils.py: the loaders as functions of a whole file *)

RECURSIVE FoldStateTransitionLines(_, _, _)
\* The while loop of load_state_transitions_file from line i on: the loader's state
\* at end of file, or the error of the first line that fails a check.
FoldStateTransitionLines(ld, file, i) ==
    IF i > Len(file) THEN [err |-> "", ld |-> ld]
    ELSE IF LineError(ld.subject_task_state, file[i]) # ""
    THEN [err |-> LineError(ld.subject_task_state, file[i]), ld |-> ld]
    ELSE FoldStateTransitionLines(StepLine(ld, file[i]), file, i + 1)

RECURSIVE FirstOccurrences(_, _)
\* The keys of the first n lines in order of first occurrence (the insertion order
\* of the dict a loader returns).
FirstOccurrences(file, n) ==
    IF n = 0 THEN <<>>
    ELSE LET before == FirstOccurrences(file, n - 1)
             key == Identifier(file[n])
         IN  IF \E j \in 1..Len(before) : before[j] = key
             THEN before
             ELSE Append(before, key)

\* The line the end-of-file check names: the last line of the first key, in the
\* order of the returned dict, whose sequence does not end with task_conclusion.
FinalErrorLine(ld, order) ==
    LET failing == SelectSeq(order, LAMBDA key :
                       ~verify_last_state_is_task_conclusion(
                            ld.state_transitions[key].state_transitions))
    IN  ld.subject_task_state[failing[1]].line_no

\* load_state_transitions_file: [err, contents, order, line_no], line_no being the
\* line the error names.
load_state_transitions_file(file) ==
    LET folded == FoldStateTransitionLines(
                      [ line_no |-> 1, subject_task_state |-> EmptyMap,
                        state_transitions |-> EmptyMap ], file, 1)
        final == IF folded.err # "" THEN folded.err
                 ELSE FinalError(folded.ld.state_transitions)
    IN  IF final # ""
        THEN [err |-> final, contents |-> EmptyMap, order |-> <<>>,
              line_no |-> IF folded.err # "" THEN folded.ld.line_no
                          ELSE FinalErrorLine(folded.ld,
                                              FirstOccurrences(file, Len(file)))]
        ELSE [err |-> "", contents |-> folded.ld.state_transitions,
              order |-> FirstOccurrences(file, Len(file)),
              line_no |-> folded.ld.line_no]

\* The error the validation of one Subject-Task line raises, "" when none
\* (lines 197-199).
SubjectTaskLineError(raw) ==
    IF ~verify_all_subject_task_fields_present(raw) THEN "missing_field"
    ELSE IF ~IsoStrParses(raw.task_start_time) THEN "parse_error"
    ELSE IF ~type_check_subject_task_fields(
                 [raw EXCEPT !.task_start_time = iso_str_as_datetime(@)])
    THEN "type_error"
    ELSE ""

RECURSIVE FoldSubjectTaskLines_keeps_first(_, _, _)
\* The while loop with an earlier line of a key kept against the later ones.
FoldSubjectTaskLines_keeps_first(subject_tasks, file, i) ==
    IF i > Len(file) THEN [err |-> "", contents |-> subject_tasks, line_no |-> i]
    ELSE IF SubjectTaskLineError(file[i]) # ""
    THEN [err |-> SubjectTaskLineError(file[i]), contents |-> EmptyMap, line_no |-> i]
    ELSE LET json_in == [file[i] EXCEPT !.task_start_time = iso_str_as_datetime(@)]
         IN  FoldSubjectTaskLines_keeps_first(
                 IF Identifier(json_in) \in DOMAIN subject_tasks THEN subject_tasks
                 ELSE Put(subject_tasks, Identifier(json_in), json_in),
                 file, i + 1)

RECURSIVE FoldSubjectTaskLines(_, _, _)
\* The while loop of load_subject_task_file from line i on: a later line of a key
\* overwrites the earlier one.
FoldSubjectTaskLines(subject_tasks, file, i) ==
    IF i > Len(file) THEN [err |-> "", contents |-> subject_tasks, line_no |-> i]
    ELSE IF SubjectTaskLineError(file[i]) # ""
    THEN [err |-> SubjectTaskLineError(file[i]), contents |-> EmptyMap, line_no |-> i]
    ELSE LET json_in == [file[i] EXCEPT !.task_start_time = iso_str_as_datetime(@)]
         IN  FoldSubjectTaskLines(Put(subject_tasks, Identifier(json_in), json_in),
                                  file, i + 1)

\* load_subject_task_file: [err, contents, order, line_no], line_no being the line
\* the error names.
load_subject_task_file(file) ==
    LET folded == FoldSubjectTaskLines(EmptyMap, file, 1)
    IN  IF folded.err # ""
        THEN [err |-> folded.err, contents |-> EmptyMap, order |-> <<>>,
              line_no |-> folded.line_no]
        ELSE [err |-> "", contents |-> folded.contents,
              order |-> FirstOccurrences(file, Len(file)), line_no |-> folded.line_no]

\* load_jsonl_file: the shape is decided by the presence check of the first line,
\* Subject-Task first.
load_jsonl_file(file) ==
    IF verify_all_subject_task_fields_present(file[1])
    THEN load_subject_task_file(file)
    ELSE IF verify_all_state_transition_fields_present(file[1])
    THEN load_state_transitions_file(file)
    ELSE [err |-> "unrecognized_format", contents |-> EmptyMap, order |-> <<>>,
          line_no |-> 1]

---------------------------------------------------------------------------
(* file_utils.py: load_directory *)

TIME_DIFFERENCE_THRESHOLD == 1

Abs(x) == IF x < 0 THEN -x ELSE x

Without(record, field) == [f \in (DOMAIN record) \ {field} |-> record[f]]

\* Python's dict equality: the same keys with equal values.
DictEqual(a, b) ==
    /\ DOMAIN a = DOMAIN b
    /\ \A f \in DOMAIN a : a[f] = b[f]

HasTransitions(record) == "state_transitions" \in DOMAIN record

\* Lines 58-71 with the comparisons made inclusive of the threshold.
MergeWarnings_at_threshold(entry, existing, incoming, filename) ==
    { [ field |-> f, entry |-> entry,
        recorded |-> existing[f], recorded_file |-> existing.file_source,
        new |-> incoming[f], new_file |-> filename ] :
      f \in { g \in {"task_total_time", "km_pull_total_time"} :
                 Abs(existing[g] - incoming[g]) >= TIME_DIFFERENCE_THRESHOLD } }

\* Lines 58-71: the warnings printed when an incoming record meets an existing one.
MergeWarnings(entry, existing, incoming, filename) ==
    { [ field |-> f, entry |-> entry,
        recorded |-> existing[f], recorded_file |-> existing.file_source,
        new |-> incoming[f], new_file |-> filename ] :
      f \in { g \in {"task_total_time", "km_pull_total_time"} :
                 Abs(existing[g] - incoming[g]) > TIME_DIFFERENCE_THRESHOLD } }

\* Lines 73-98 with the fields of the record that carries the sequence kept.
MergeRecord_keeps_derived(existing, incoming, filename) ==
    IF HasTransitions(existing) /\ ~HasTransitions(incoming)
    THEN [err |-> FALSE, record |-> existing]
    ELSE IF HasTransitions(incoming) /\ ~HasTransitions(existing)
    THEN [err |-> FALSE, record |-> Put(incoming, "file_source", existing.file_source)]
    ELSE [err |-> ~DictEqual(incoming, Without(existing, "file_source")),
          record |-> existing]

\* Lines 73-98 with the equality check of two Subject-Task records left out.
MergeRecord_no_subject_task_check(existing, incoming, filename) ==
    IF HasTransitions(existing) /\ ~HasTransitions(incoming)
    THEN [err |-> FALSE,
          record |-> Put(Put(incoming, "state_transitions", existing.state_transitions),
                         "file_source", filename)]
    ELSE IF HasTransitions(incoming) /\ ~HasTransitions(existing)
    THEN [err |-> FALSE,
          record |-> Put(existing, "state_transitions", incoming.state_transitions)]
    ELSE IF HasTransitions(incoming) /\ HasTransitions(existing)
    THEN [err |-> ~DictEqual(incoming, Without(existing, "file_source")),
          record |-> existing]
    ELSE [err |-> FALSE, record |-> existing]

\* Lines 73-98 with a record that carries the sequence and one that does not
\* required to agree exactly on task_total_time.
MergeRecord_exact_total_time(existing, incoming, filename) ==
    IF HasTransitions(existing) /\ ~HasTransitions(incoming)
    THEN [err |-> existing.task_total_time # incoming.task_total_time,
          record |-> Put(Put(incoming, "state_transitions", existing.state_transitions),
                         "file_source", filename)]
    ELSE IF HasTransitions(incoming) /\ ~HasTransitions(existing)
    THEN [err |-> existing.task_total_time # incoming.task_total_time,
          record |-> Put(existing, "state_transitions", incoming.state_transitions)]
    ELSE [err |-> ~DictEqual(incoming, Without(existing, "file_source")),
          record |-> existing]

\* Lines 73-98 with file_source left in the copy of the existing record that is
\* compared (lines 85 and 94 dropped).
MergeRecord_compares_file_source(existing, incoming, filename) ==
    IF HasTransitions(existing) /\ ~HasTransitions(incoming)
    THEN [err |-> FALSE,
          record |-> Put(Put(incoming, "state_transitions", existing.state_transitions),
                         "file_source", filename)]
    ELSE IF HasTransitions(incoming) /\ ~HasTransitions(existing)
    THEN [err |-> FALSE,
          record |-> Put(existing, "state_transitions", incoming.state_transitions)]
    ELSE [err |-> ~DictEqual(incoming, existing), record |-> existing]

\* Lines 73-98 with file_source set to the incoming file's name when the equality
\* check passes.
MergeRecord_updates_file_source(existing, incoming, filename) ==
    IF HasTransitions(existing) /\ ~HasTransitions(incoming)
    THEN [err |-> FALSE,
          record |-> Put(Put(incoming, "state_transitions", existing.state_transitions),
                         "file_source", filename)]
    ELSE IF HasTransitions(incoming) /\ ~HasTransitions(existing)
    THEN [err |-> FALSE,
          record |-> Put(existing, "state_transitions", incoming.state_transitions)]
    ELSE [err |-> ~DictEqual(incoming, Without(existing, "file_source")),
          record |-> Put(existing, "file_source", filename)]

\* Lines 73-98: the record stored for a key already present, and whether the
\* conflicting-record ValueError is raised.
\* The merge with line 78 (the file_source of the replacing record) left out.
MergeRecord_drops_file_source(existing, incoming, filename) ==
    IF HasTransitions(existing) /\ ~HasTransitions(incoming)
    THEN [err |-> FALSE,
          record |-> Put(incoming, "state_transitions", existing.state_transitions)]
    ELSE IF HasTransitions(incoming) /\ ~HasTransitions(existing)
    THEN [err |-> FALSE,
          record |-> Put(existing, "state_transitions", incoming.state_transitions)]
    ELSE [err |-> ~DictEqual(incoming, Without(existing, "file_source")),
          record |-> existing]

\* The merge that, meeting a record with the sequence, takes that record whole.
MergeRecord_takes_sequence_record(existing, incoming, filename) ==
    IF HasTransitions(existing) /\ ~HasTransitions(incoming)
    THEN [err |-> FALSE,
          record |-> Put(Put(incoming, "state_transitions", existing.state_transitions),
                         "file_source", filename)]
    ELSE IF HasTransitions(incoming) /\ ~HasTransitions(existing)
    THEN [err |-> FALSE, record |-> Put(incoming, "file_source", filename)]
    ELSE [err |-> ~DictEqual(incoming, Without(existing, "file_source")),
          record |-> existing]

\* The merge that replaces a record carrying the sequence by the incoming
\* Subject-Task record as it is.
MergeRecord_replaces_record(existing, incoming, filename) ==
    IF HasTransitions(existing) /\ ~HasTransitions(incoming)
    THEN [err |-> FALSE, record |-> Put(incoming, "file_source", filename)]
    ELSE IF HasTransitions(incoming) /\ ~HasTransitions(existing)
    THEN [err |-> FALSE,
          record |-> Put(existing, "state_transitions", incoming.state_transitions)]
    ELSE [err |-> ~DictEqual(incoming, Without(existing, "file_source")),
          record |-> existing]

MergeRecord(existing, incoming, filename) ==
    IF HasTransitions(existing) /\ ~HasTransitions(incoming)
    THEN [err |-> FALSE,
          record |-> Put(Put(incoming, "state_transitions", existing.state_transitions),
                         "file_source", filename)]
    ELSE IF HasTransitions(incoming) /\ ~HasTransitions(existing)
    THEN [err |-> FALSE,
          record |-> Put(existing, "state_transitions", incoming.state_transitions)]
    ELSE IF HasTransitions(incoming) /\ HasTransitions(existing)
    THEN [err |-> ~DictEqual(incoming, Without(existing, "file_source")),
          record |-> existing]
    ELSE [err |-> ~DictEqual(incoming, Without(existing, "file_source")),
          record |-> existing]

RECURSIVE MergeEntries(_, _, _, _)
\* Lines 50-98: the entries of one loaded file merged, in the file's key order,
\* into acc = [contents, warnings, err]; the first conflict ends the loop.
MergeEntries(acc, loaded, filename, i) ==
    IF i > Len(loaded.order) THEN acc
    ELSE LET entry == loaded.order[i]
             incoming == loaded.contents[entry]
         IN  IF entry \notin DOMAIN acc.contents
             THEN MergeEntries(
                      [acc EXCEPT !.contents =
                          Put(@, entry, Put(incoming, "file_source", filename))],
                      loaded, filename, i + 1)
             ELSE LET existing == acc.contents[entry]
                      printed == acc.warnings
                                   \cup MergeWarnings(entry, existing, incoming, filename)
                      merged == MergeRecord(existing, incoming, filename)
                  IN  IF merged.err
                      THEN [ contents |-> acc.contents,
                             warnings |-> printed,
                             err |-> [ kind |-> "conflict", entry |-> entry,
                                       recorded_file |-> existing.file_source,
                                       new_file |-> filename ] ]
                      ELSE MergeEntries(
                               [acc EXCEPT !.contents = Put(@, entry, merged.record),
                                           !.warnings = printed],
                               loaded, filename, i + 1)

\* os.path.splitext(filename)[-1]
FileExt(filename) == filename.ext

\* One iteration of the loop over the directory with a file that fails to load
\* passed over.
VisitJsonl_skips_failed(acc, filename, file) ==
    LET loaded == load_jsonl_file(file)
    IN  IF loaded.err # ""
        THEN acc
        ELSE MergeEntries(acc, loaded, filename, 1)

\* One iteration of the loop over the directory (lines 44-103) for a .jsonl file.
VisitJsonl(acc, filename, file) ==
    LET loaded == load_jsonl_file(file)
    IN  IF loaded.err # ""
        THEN [acc EXCEPT !.err = [kind |-> loaded.err, new_file |-> filename]]
        ELSE MergeEntries(acc, loaded, filename, 1)

---------------------------------------------------------------------------
(* file_utils.py: load_csv_file and the checks it makes *)

required_column_names == <<"task_id", "task_optimal_time_in_seconds", "task_maximum_score">>
optional_column_names == <<"task_passing_score">>

Range(seq) == { seq[i] : i \in 1..Len(seq) }

RemoveAt(seq, i) == [ j \in 1..(Len(seq) - 1) |-> IF j < i THEN seq[j] ELSE seq[j + 1] ]

RECURSIVE RemoveWhileIterating(_, _)
\* Lines 243-245: the for loop over extra_columns that removes from the list it
\* walks. The iterator's index moves on after a removal, so the element that
\* slid into the freed place is not visited.
RemoveWhileIterating(extra_columns, i) ==
    IF i > Len(extra_columns) THEN extra_columns
    ELSE IF extra_columns[i] \in Range(optional_column_names)
    THEN RemoveWhileIterating(RemoveAt(extra_columns, i), i + 1)
    ELSE RemoveWhileIterating(extra_columns, i + 1)

\* The listings list(set(...)) may produce for a set.
Listings(set) ==
    { seq \in [1..Cardinality(set) -> set] : Range(seq) = set }

\* verify_column_names: the error raised, NoError when none. extra_listing is the
\* order in which list(set(column_names) - required) lists the extra names.
verify_column_names(column_names, extra_listing) ==
    LET missing_columns == Range(required_column_names) \ Range(column_names)
        extra_columns == RemoveWhileIterating(extra_listing, 1)
    IN  IF missing_columns # {}
        THEN [kind |-> "missing_columns", columns |-> missing_columns]
        ELSE IF extra_columns # <<>>
        THEN [kind |-> "extra_columns", columns |-> extra_columns]
        ELSE NoError

\* The texts a cell may hold, and what float() and int() parse.
CellTexts == {"7", "2.5", "", "n/a"}
FloatTexts == {"7", "2.5"}
IntTexts == {"7"}

Cell(text) == JsonValue("str", text)

\* verify_row_types: the row converted by position, or the error raised. The blank
\* text is falsy, so a blank fourth cell is left as it is.
verify_row_types(row, row_no) ==
    IF row[2].value \notin FloatTexts
    THEN [err |-> "value_error", row_no |-> row_no, row |-> row]
    ELSE IF row[3].value \notin IntTexts
    THEN [err |-> "value_error", row_no |-> row_no, row |-> row]
    ELSE IF Len(row) > 3 /\ row[4].value # "" /\ row[4].value \notin FloatTexts
    THEN [err |-> "value_error", row_no |-> row_no, row |-> row]
    ELSE [err |-> "", row_no |-> row_no,
          row |-> [ j \in 1..Len(row) |->
                      IF j = 2 THEN JsonValue("float", row[j].value)
                      ELSE IF j = 3 THEN JsonValue("int", row[j].value)
                      ELSE IF j = 4 /\ row[j].value # ""
                      THEN JsonValue("float", row[j].value)
                      ELSE row[j] ] ]

\* Lines 339-344: the cells after the first stored under the header's names, a
\* later cell of a repeated name replacing the earlier one.
Attributes(column_names, row) ==
    [ name \in { column_names[j] : j \in 2..Len(row) } |->
        LET last == CHOOSE j \in 2..Len(row) :
                       /\ column_names[j] = name
                       /\ \A k \in (j + 1)..Len(row) : column_names[k] # name
        IN  row[last] ]

RECURSIVE ReadRows(_, _, _)
\* Lines 337-345: the data rows from line i on, each converted and stored under
\* its first cell; the first row that does not convert ends the loop.
ReadRows(csv_file, tasks, i) ==
    IF i > Len(csv_file) THEN [err |-> NoError, tasks |-> tasks]
    ELSE LET verified == verify_row_types(csv_file[i], i)
         IN  IF verified.err # ""
             THEN [ err |-> [kind |-> verified.err, row_no |-> verified.row_no],
                    tasks |-> EmptyMap ]
             ELSE ReadRows(csv_file,
                           Put(tasks, verified.row[1].value,
                               Attributes(csv_file[1], verified.row)),
                           i + 1)

\* load_csv_file on the rows of a file, the header first: [err, tasks].
load_csv_file(csv_file, extra_listing) ==
    IF csv_file = <<>> THEN [err |-> NoError, tasks |-> EmptyMap]
    ELSE LET error == verify_column_names(csv_file[1], extra_listing)
         IN  IF error # NoError THEN [err |-> error, tasks |-> EmptyMap]
             ELSE ReadRows(csv_file, EmptyMap, 2)

---------------------------------------------------------------------------
(* The files a directory may hold *)

E1(clock, state) == Event(<<"U1">>, "prototype", <<"T1">>, IsoText(clock, 0), state)
E2(clock, state) == Event(<<"U1">>, "prototype", <<"T2">>, IsoText(clock, 0), state)

SubjectTaskLine(task, start, total, pull, grade) ==
    [ subject_id |-> <<"U1">>, condition |-> "prototype", task_id |-> task,
      task_start_time |-> start, task_total_time |-> total,
      km_pull_total_time |-> pull, km_push_total_time |-> 0,
      task_grade |-> JsonValue("int", grade),
      corpus_knowledge_nugget_count |-> JsonValue("int", 0),
      expert_captured_knowledge_nugget_count |-> JsonValue("int", 0),
      nugget_content |-> JsonValue("list", <<>>),
      task_timeout |-> JsonValue("bool", FALSE) ]

JsonlFile(file) == [ext |-> ".jsonl", file |-> file]

Catalogue ==
    << \* State-Transition files: session T1 with total 3 and pull 2 ...
       JsonlFile(<< E1(0, "task_initialized"), E1(1, "km_pull_activity"),
                    E1(3, "task_conclusion") >>),
       \* ... the same session with another sequence (total 3, pull 0) ...
       JsonlFile(<< E1(0, "task_initialized"), E1(1, "task_execution"),
                    E1(3, "task_conclusion") >>),
       \* ... two interleaved sessions ...
       JsonlFile(<< E2(0, "task_initialized"), E1(0, "task_initialized"),
                    E1(3, "task_conclusion"), E2(1, "task_conclusion") >>),
       \* ... and a session that never concludes.
       JsonlFile(<< E1(0, "task_initialized") >>),
       \* Subject-Task files for session T1: agreeing with the first file above,
       JsonlFile(<< SubjectTaskLine(<<"T1">>, IsoText(0, 0), 3, 2, 1) >>),
       \* with another grade,
       JsonlFile(<< SubjectTaskLine(<<"T1">>, IsoText(0, 0), 3, 2, 2) >>),
       \* with a total time 1 second off (inside the tolerance),
       JsonlFile(<< SubjectTaskLine(<<"T1">>, IsoText(0, 0), 4, 2, 1) >>),
       \* with the same start instant written at offset +01:00,
       JsonlFile(<< SubjectTaskLine(<<"T1">>, IsoText(1, 1), 3, 2, 1) >>),
       \* two lines for session T1 and one for T2 in one file,
       JsonlFile(<< SubjectTaskLine(<<"T2">>, IsoText(0, 0), 1, 0, 1),
                    SubjectTaskLine(<<"T1">>, IsoText(0, 0), 3, 2, 2),
                    SubjectTaskLine(<<"T1">>, IsoText(0, 0), 3, 2, 1) >>),
       \* lines for both sessions, T1 first, each differing from the file above,
       \* T1 with a total time 2 seconds off (outside the tolerance),
       JsonlFile(<< SubjectTaskLine(<<"T1">>, IsoText(0, 0), 5, 2, 1),
                    SubjectTaskLine(<<"T2">>, IsoText(0, 0), 1, 0, 2) >>),
       \* a file of neither shape,
       JsonlFile(<< [subject_id |-> <<"U1">>, condition |-> "prototype"] >>),
       \* a per-session .json file and a .csv file of another name, which
       \* load_directory does not read.
       [ ext |-> ".json",
         file |-> << SubjectTaskLine(<<"T1">>, IsoText(0, 0), 3, 2, 2) >> ],
       [ ext |-> ".csv",
         file |-> << required_column_names, << Cell("T2"), Cell("7"), Cell("7") >> >> ] >>

\* The name of the i-th file of a directory, i >= 1.
FileName(i, ext) == [stem |-> i, ext |-> ext]

\* The name task_metadata.csv.
task_metadata_csv == [stem |-> 0, ext |-> ".csv"]

\* What a file named task_metadata.csv may hold: a header and a row that convert,
\* or a row whose second cell is no number.
MetadataFiles ==
    { << required_column_names, << Cell("T1"), Cell("2.5"), Cell("7") >> >>,
      << required_column_names, << Cell("T1"), Cell("n/a"), Cell("7") >> >> }

---------------------------------------------------------------------------
(* SpecDir: load_directory, file by file *)

LoaderIdle ==
    /\ lines = <<>>
    /\ line_no = 1
    /\ subject_task_state = EmptyMap
    /\ state_transitions = EmptyMap
    /\ pc = "idle"
    /\ err = ""
    /\ result = EmptyMap

\* A directory of 1..MaxFiles files: files drawn from the catalogue and, possibly,
\* a file named task_metadata.csv.  The catalogue files are named by position;
\* listing them in catalogue order loses nothing, since the order of visitation is
\* chosen freely below.
InitDir ==
    /\ \E n \in 0..MaxFiles :
         \E idx \in [1..n -> 1..Len(Catalogue)] :
            \E metadata \in {<<>>} \cup { <<file>> : file \in MetadataFiles } :
               /\ n + Len(metadata) \in 1..MaxFiles
               /\ \A i \in 1..(n - 1) : idx[i] <= idx[i + 1]
               /\ dir_files =
                     [ name \in { FileName(i, Catalogue[idx[i]].ext) : i \in 1..n }
                                   \cup { task_metadata_csv : i \in 1..Len(metadata) }
                         |-> IF name = task_metadata_csv THEN metadata[1]
                             ELSE Catalogue[idx[name.stem]].file ]
    /\ visited = <<>>
    /\ jsonl_contents = EmptyMap
    /\ warnings = {}
    /\ dpc = "listing"
    /\ derr = NoError
    /\ csv_metadata = EmptyMap
    /\ LoaderIdle
    /\ CallIdle

Unvisited == (DOMAIN dir_files) \ { visited[i] : i \in 1..Len(visited) }

\* The next file of the listing is a .jsonl file: it is loaded and merged.
VisitJsonlFile ==
    /\ dpc = "listing"
    /\ \E filename \in Unvisited :
         /\ FileExt(filename) = ".jsonl"
         /\ LET acc == VisitJsonl([ contents |-> jsonl_contents, warnings |-> warnings,
                                    err |-> NoError ], filename, dir_files[filename])
            IN  /\ jsonl_contents' = acc.contents
                /\ warnings' = acc.warnings
                /\ derr' = acc.err
                /\ dpc' = IF acc.err = NoError THEN "listing" ELSE "raised"
         /\ visited' = Append(visited, filename)
    /\ UNCHANGED <<dir_files, csv_metadata>>
    /\ UNCHANGED <<loader_vars, call_vars>>

\* The test of line 100 passed by every file whose extension is .csv.
IsTaskMetadata_any_csv(filename) == FileExt(filename) = ".csv"

\* Line 100: filename == "task_metadata.csv".
IsTaskMetadata(filename) == filename = task_metadata_csv

\* Lines 100-103: the next file is named task_metadata.csv: it is loaded and its
\* entries are stored in csv_metadata.
VisitTaskMetadataCsv ==
    /\ dpc = "listing"
    /\ \E filename \in Unvisited :
         /\ FileExt(filename) # ".jsonl"
         /\ IsTaskMetadata(filename)
         /\ \E extra_listing \in Listings(Range(dir_files[filename][1])
                                             \ Range(required_column_names)) :
               LET file_contents == load_csv_file(dir_files[filename], extra_listing)
               IN  IF file_contents.err = NoError
                   THEN /\ csv_metadata' =
                              [ entry \in DOMAIN csv_metadata \cup DOMAIN file_contents.tasks |->
                                  IF entry \in DOMAIN file_contents.tasks
                                  THEN file_contents.tasks[entry]
                                  ELSE csv_metadata[entry] ]
                        /\ UNCHANGED <<dpc, derr>>
                   ELSE /\ dpc' = "raised"
                        /\ derr' = [ kind |-> file_contents.err.kind,
                                     new_file |-> filename ]
                        /\ UNCHANGED csv_metadata
         /\ visited' = Append(visited, filename)
    /\ UNCHANGED <<dir_files, jsonl_contents, warnings>>
    /\ UNCHANGED <<loader_vars, call_vars>>

\* The next file is neither a .jsonl file nor task_metadata.csv: it is passed over.
SkipFile ==
    /\ dpc = "listing"
    /\ \E filename \in Unvisited :
         /\ FileExt(filename) # ".jsonl"
         /\ ~IsTaskMetadata(filename)
         /\ visited' = Append(visited, filename)
    /\ UNCHANGED <<dir_files, jsonl_contents, warnings, dpc, derr, csv_metadata>>
    /\ UNCHANGED <<loader_vars, call_vars>>

\* The listing is exhausted: the accumulated mapping is returned.
ReturnContents ==
    /\ dpc = "listing"
    /\ Unvisited = {}
    /\ dpc' = "returned"
    /\ UNCHANGED <<dir_files, visited, jsonl_contents, warnings, derr, csv_metadata>>
    /\ UNCHANGED <<loader_vars, call_vars>>

NextDir == VisitJsonlFile \/ VisitTaskMetadataCsv \/ SkipFile \/ ReturnContents

SpecDir == InitDir /\ [][NextDir]_vars

---------------------------------------------------------------------------
(* Properties of load_state_transitions_file (checked under Spec) *)

\* The file's accepted lines as parsed events, in file order.
ParsedLines ==
    [i \in 1..Len(lines) |-> [lines[i] EXCEPT !.utc_timestamp = iso_str_as_datetime(@)]]

FileKeys == { Identifier(ParsedLines[i]) : i \in 1..Len(lines) }

\* The events of one session key, in file order.
KeyEvents(key) == SelectSeq(ParsedLines, LAMBDA e : Identifier(e) = key)

Delta(evs, i) == evs[i + 1].utc_timestamp - evs[i].utc_timestamp

RECURSIVE SumOver(_, _, _)
\* Sum of the deltas i -> i+1, i < n, whose exited event evs[i] has a state in S.
SumOver(evs, n, S) ==
    IF n <= 1 THEN 0
    ELSE SumOver(evs, n - 1, S)
           + (IF evs[n - 1].state_id \in S THEN Delta(evs, n - 1) ELSE 0)

SumOfDeltas(evs) == SumOver(evs, Len(evs), state_ids)

SumOfDeltasExiting(evs, state) == SumOver(evs, Len(evs), {state})

StrictlyIncreasing(evs) ==
    \A i \in 1..(Len(evs) - 1) : evs[i].utc_timestamp < evs[i + 1].utc_timestamp

\* The legal edges as the specification lists them, by source state.
LegalTargets(from) ==
    CASE from = "task_initialized" ->
            {"task_execution", "km_pull_activity", "km_push_activity", "task_conclusion"}
      [] from = "task_execution" ->
            {"task_execution", "km_push_activity", "km_pull_activity", "task_conclusion"}
      [] from = "km_push_activity" ->
            {"task_execution", "km_pull_activity", "task_conclusion"}
      [] from = "km_pull_activity" ->
            {"km_push_activity", "task_execution", "task_conclusion"}
      [] OTHER -> {}

LegalEdge(from, to) == to \in LegalTargets(from)

OnlyLegalEdges(evs) ==
    \A i \in 1..(Len(evs) - 1) : LegalEdge(evs[i].state_id, evs[i + 1].state_id)

\* C1: for every session sequence that starts at task_initialized, ends at
\* task_conclusion, uses only legal edges and has strictly increasing timestamps,
\* the loader returns a record whose task_total_time is the sum of all consecutive
\* deltas and whose km_pull / km_push totals are the sums of exactly the deltas whose
\* exited state is km_pull_activity / km_push_activity; a line that continues such a
\* sequence is never rejected.
C1_TimesAreSumsOfExitedDeltas ==
    /\ pc = "returned" =>
         \A key \in FileKeys :
            LET evs == KeyEvents(key)
            IN  ( /\ evs[1].state_id = "task_initialized"
                  /\ evs[Len(evs)].state_id = "task_conclusion"
                  /\ OnlyLegalEdges(evs)
                  /\ StrictlyIncreasing(evs) )
                => /\ key \in DOMAIN result
                   /\ result[key].task_total_time = SumOfDeltas(evs)
                   /\ result[key].km_pull_total_time =
                         SumOfDeltasExiting(evs, "km_pull_activity")
                   /\ result[key].km_push_total_time =
                         SumOfDeltasExiting(evs, "km_push_activity")
    /\ pc = "reading" =>
         /\ \A raw \in WellFormedEvents :
               LET key == Identifier(raw)
                   t2 == iso_str_as_datetime(raw.utc_timestamp)
               IN  IF key \in DOMAIN subject_task_state
                   THEN ( /\ subject_task_state[key].utc_timestamp < t2
                          /\ LegalEdge(subject_task_state[key].state_id, raw.state_id) )
                        => LineError(subject_task_state, raw) = ""
                   ELSE raw.state_id = "task_initialized"
                        => LineError(subject_task_state, raw) = ""
         /\ (\A key \in FileKeys :
                LET evs == KeyEvents(key)
                IN  evs[Len(evs)].state_id = "task_conclusion")
            => FinalError(state_transitions) = ""

\* A returned session with strictly increasing timestamps that exits both a pull
\* and a push activity.
C1_Witness ==
    /\ pc = "returned"
    /\ \E key \in FileKeys :
          /\ StrictlyIncreasing(KeyEvents(key))
          /\ result[key].km_pull_total_time > 0
          /\ result[key].km_push_total_time > 0
          /\ result[key].task_total_time
                > result[key].km_pull_total_time + result[key].km_push_total_time

\* C2: in every record returned by a successful load, the embedded sequence is the
\* key's events in file order, begins with task_initialized and ends with
\* task_conclusion.
C2_SequenceBoundaries ==
    pc = "returned" =>
        /\ DOMAIN result = FileKeys
        /\ \A key \in DOMAIN result :
              LET seq == result[key].state_transitions
              IN  /\ seq = KeyEvents(key)
                  /\ Len(seq) >= 1
                  /\ seq[1].state_id = "task_initialized"
                  /\ seq[Len(seq)].state_id = "task_conclusion"

\* A returned file holding two interleaved sessions.
C2_Witness ==
    /\ pc = "returned"
    /\ Cardinality(DOMAIN result) = 2
    /\ Identifier(ParsedLines[1]) # Identifier(ParsedLines[2])

\* C3: in every returned record every consecutive pair of the embedded sequence is
\* a legal edge; a line that would add a same-key pair outside the legal-edge set is
\* rejected, and a rejected file returns no records.
C3_OnlyLegalEdges ==
    /\ pc = "returned" =>
          \A key \in DOMAIN result : OnlyLegalEdges(result[key].state_transitions)
    /\ \A key \in FileKeys : OnlyLegalEdges(KeyEvents(key))
    /\ pc = "reading" =>
          \A raw \in WellFormedEvents :
             LET key == Identifier(raw)
             IN  ( /\ key \in DOMAIN subject_task_state
                   /\ ~LegalEdge(subject_task_state[key].state_id, raw.state_id) )
                 => LineError(subject_task_state, raw) \in {"out_of_order", "invalid_transition"}
    /\ pc = "raised" => result = EmptyMap

\* A returned session that walks through four different states.
C3_Witness ==
    /\ pc = "returned"
    /\ \E key \in DOMAIN result :
          LET seq == result[key].state_transitions
          IN  /\ Len(seq) = 4
              /\ Cardinality({ seq[i].state_id : i \in 1..4 }) = 4

\* C4 (as claimed): each accepted event's timestamp is >= the timestamp of the key's
\* previous event, and strictly greater unless the previous state is
\* task_initialized; an event earlier than its predecessor is rejected whatever the
\* previous state is.
C4_TimestampsInOrder ==
    \A key \in FileKeys :
       LET evs == KeyEvents(key)
       IN  \A i \in 1..(Len(evs) - 1) :
              \/ evs[i].utc_timestamp < evs[i + 1].utc_timestamp
              \/ /\ evs[i].utc_timestamp = evs[i + 1].utc_timestamp
                 /\ evs[i].state_id = "task_initialized"

\* C5 (as claimed): the three aggregates of every returned record are non-negative.
C5_TimesNonNegative ==
    pc = "returned" =>
        \A key \in DOMAIN result :
           /\ result[key].task_total_time >= 0
           /\ result[key].km_pull_total_time >= 0
           /\ result[key].km_push_total_time >= 0

---------------------------------------------------------------------------
(* Properties of load_directory (checked under SpecDir) *)

JsonlNames == { filename \in DOMAIN dir_files : FileExt(filename) = ".jsonl" }

\* What load_jsonl_file returns for a file of the directory.
Loaded(filename) == load_jsonl_file(dir_files[filename])

\* The visitation orders of a set of file names.
Orders(names) ==
    { order \in [1..Cardinality(names) -> names] :
        \A i, j \in 1..Cardinality(names) : i # j => order[i] # order[j] }

RECURSIVE VisitInOrder(_, _, _)
VisitInOrder(acc, order, i) ==
    IF i > Len(order) \/ acc.err # NoError THEN acc
    ELSE VisitInOrder(VisitJsonl(acc, order[i], dir_files[order[i]]), order, i + 1)

\* load_directory when the .jsonl files are listed in the given order.
LoadDirectory(order) ==
    VisitInOrder([contents |-> EmptyMap, warnings |-> {}, err |-> NoError], order, 1)

\* Two mappings of session key to record are the same, ignoring file_source.
SameMapping(a, b) ==
    /\ DOMAIN a = DOMAIN b
    /\ \A key \in DOMAIN a :
          DictEqual(Without(a[key], "file_source"), Without(b[key], "file_source"))

\* The two records differ in some field other than file_source.
Differ(existing, incoming) ==
    \/ (DOMAIN existing) \ {"file_source"} # (DOMAIN incoming) \ {"file_source"}
    \/ \E f \in ((DOMAIN existing) \cap (DOMAIN incoming)) \ {"file_source"} :
          existing[f] # incoming[f]

\* The step visits a .jsonl file that loads; the file is the last of visited'.
VisitsLoadedFile ==
    /\ dpc = "listing"
    /\ Len(visited') = Len(visited) + 1
    /\ FileExt(visited'[Len(visited')]) = ".jsonl"
    /\ Loaded(visited'[Len(visited')]).err = ""

\* C6 (as claimed, for two Subject-Task records): whenever load_directory returns,
\* two Subject-Task records of the same key coming from different files of the
\* directory agree on every field.
C6_SourceRecordsAgree ==
    dpc = "returned" =>
        \A f, g \in JsonlNames :
           (f # g /\ Loaded(f).err = "" /\ Loaded(g).err = "") =>
              \A key \in (DOMAIN Loaded(f).contents) \cap (DOMAIN Loaded(g).contents) :
                 LET rf == Loaded(f).contents[key]
                     rg == Loaded(g).contents[key]
                 IN  (~HasTransitions(rf) /\ ~HasTransitions(rg)) => DictEqual(rf, rg)

\* C7 (as claimed): every visitation order of the directory's .jsonl files that
\* succeeds returns the same mapping of session key to record, ignoring file_source.
C7_OrderIndependentOutcome ==
    dpc = "returned" =>
        \A order \in Orders(JsonlNames) :
           LoadDirectory(order).err = NoError
              => SameMapping(LoadDirectory(order).contents, jsonl_contents)

\* C8 (as claimed): for a directory whose files all load, if one visitation order
\* raises the conflicting-record error then every order raises it, and if one order
\* succeeds then every order succeeds.
C8_SymmetricConflictDetection ==
    (\A f \in JsonlNames : Loaded(f).err = "") =>
        /\ dpc = "returned" =>
              \A order \in Orders(JsonlNames) : LoadDirectory(order).err = NoError
        /\ (dpc = "raised" /\ derr.kind = "conflict") =>
              \A order \in Orders(JsonlNames) : LoadDirectory(order).err.kind = "conflict"

\* C9: when exactly one of the existing record and the incoming record of a key
\* carries state_transitions, the merge of that key does not fail, and the stored
\* record has every field value of the record without the sequence plus the
\* sequence of the record that carries it, whichever of the two was loaded first.
C9_ComplementaryMerge ==
    [][ VisitsLoadedFile =>
          LET filename == visited'[Len(visited')]
              common == (DOMAIN Loaded(filename).contents) \cap (DOMAIN jsonl_contents)
              complementary ==
                  { entry \in common :
                      HasTransitions(jsonl_contents[entry])
                         # HasTransitions(Loaded(filename).contents[entry]) }
          IN  /\ \A entry \in complementary :
                    LET existing == jsonl_contents[entry]
                        incoming == Loaded(filename).contents[entry]
                        plain == IF HasTransitions(existing) THEN incoming ELSE existing
                        derived == IF HasTransitions(existing) THEN existing ELSE incoming
                    IN  /\ derr'.kind = "conflict" => derr'.entry # entry
                        /\ dpc' = "listing" =>
                              /\ DictEqual(
                                    Without(Without(jsonl_contents'[entry],
                                                    "state_transitions"), "file_source"),
                                    Without(plain, "file_source"))
                              /\ jsonl_contents'[entry].state_transitions
                                    = derived.state_transitions
              /\ complementary = common => dpc' = "listing"
      ]_vars

\* A merged record that carries a sequence next to pre-aggregated fields whose
\* total time (5) is not the one derived from the sequence (3).
C9_Witness ==
    /\ dpc = "listing"
    /\ \E key \in DOMAIN jsonl_contents :
          /\ HasTransitions(jsonl_contents[key])
          /\ "task_grade" \in DOMAIN jsonl_contents[key]
          /\ jsonl_contents[key].task_total_time = 5
          /\ SumOfDeltas(jsonl_contents[key].state_transitions) = 3

\* C10: when the existing and the incoming record of a key both carry
\* state_transitions or both lack it, load_directory raises the conflicting-record
\* error, naming the recorded file and the incoming file, if and only if the two
\* records differ in a field other than file_source; otherwise the load continues.
C10_ConflictIffDiffer ==
    [][ VisitsLoadedFile =>
          LET filename == visited'[Len(visited')]
              common == (DOMAIN Loaded(filename).contents) \cap (DOMAIN jsonl_contents)
              differing ==
                  { entry \in common :
                      /\ HasTransitions(jsonl_contents[entry])
                            = HasTransitions(Loaded(filename).contents[entry])
                      /\ Differ(jsonl_contents[entry], Loaded(filename).contents[entry]) }
          IN  /\ differing # {} =>
                    /\ dpc' = "raised"
                    /\ derr'.kind = "conflict"
                    /\ derr'.entry \in differing
                    /\ derr'.new_file = filename
                    /\ derr'.recorded_file = jsonl_contents[derr'.entry].file_source
              /\ differing = {} => (dpc' = "listing" /\ derr' = NoError)
      ]_vars

\* Two Subject-Task records of one key with total times 3 and 5 and different
\* grades: the warning is printed and the conflict raised.
C10_Witness ==
    /\ dpc = "raised"
    /\ derr.kind = "conflict"
    /\ ~HasTransitions(jsonl_contents[derr.entry])
    /\ \E w \in warnings : w.entry = derr.entry /\ w.field = "task_total_time"

\* The keys of the visited file that meet an existing record in this step: the keys
\* already present, up to the one the conflicting-record error names.
MetEntries ==
    LET filename == visited'[Len(visited')]
        order == Loaded(filename).order
        last == IF derr'.kind = "conflict"
                THEN CHOOSE k \in 1..Len(order) : order[k] = derr'.entry
                ELSE Len(order)
    IN  { order[j] : j \in 1..last } \cap (DOMAIN jsonl_contents)

\* C11: when an incoming record meets an existing record of the same key, a warning
\* is printed for task_total_time (km_pull_total_time) if and only if the two values
\* of that field differ by more than 1; no other warning is printed; a key whose
\* warning is printed aborts the load only under the conflicting-record rule, and
\* the record stored for it is the one the merge rule stores without a warning.
C11_WarningIffBeyondTolerance ==
    [][ VisitsLoadedFile =>
          LET filename == visited'[Len(visited')]
              printed == warnings' \ warnings
          IN  /\ warnings \subseteq warnings'
              /\ \A w \in printed :
                    /\ w.entry \in MetEntries
                    /\ w.field \in {"task_total_time", "km_pull_total_time"}
                    /\ w.new_file = filename
              /\ \A entry \in MetEntries :
                    LET existing == jsonl_contents[entry]
                        incoming == Loaded(filename).contents[entry]
                        sameShape == HasTransitions(existing) = HasTransitions(incoming)
                    IN  /\ \A f \in {"task_total_time", "km_pull_total_time"} :
                              (\E w \in printed : w.entry = entry /\ w.field = f)
                                 <=> \/ existing[f] - incoming[f] > 1
                                     \/ incoming[f] - existing[f] > 1
                        /\ (\E w \in printed : w.entry = entry) =>
                              /\ (dpc' = "raised" /\ derr'.entry = entry)
                                    => (sameShape /\ Differ(existing, incoming))
                              /\ (dpc' = "listing" /\ sameShape)
                                    => jsonl_contents'[entry] = existing
                              /\ (dpc' = "listing" /\ ~sameShape)
                                    => /\ jsonl_contents'[entry].task_total_time
                                            = (IF HasTransitions(existing)
                                               THEN incoming ELSE existing).task_total_time
                                       /\ jsonl_contents'[entry].km_pull_total_time
                                            = (IF HasTransitions(existing)
                                               THEN incoming ELSE existing).km_pull_total_time
      ]_vars

\* A directory returned after one warning (total times 3 and 5) and a later merge
\* of total times 5 and 4, one second apart, that printed none.
C11_Witness ==
    /\ dpc = "returned"
    /\ Cardinality(warnings) = 1
    /\ \E w \in warnings :
          /\ w.field = "task_total_time"
          /\ w.recorded = 3 /\ w.new = 5
          /\ jsonl_contents[w.entry].task_total_time = 4

\* The two task_total_time values are at most 1 second apart.
WithinTolerance(existing, incoming) ==
    /\ existing.task_total_time - incoming.task_total_time <= 1
    /\ incoming.task_total_time - existing.task_total_time <= 1

\* C12 (as claimed): when the records of two files for one key have different
\* task_total_time values at most 1 second apart, the merge succeeds, a record for the key is
\* stored and a warning is reported for the key.
C12_WithinToleranceMergesWithWarning ==
    [][ VisitsLoadedFile =>
          LET filename == visited'[Len(visited')]
          IN  \A entry \in MetEntries :
                 ( /\ jsonl_contents[entry].task_total_time
                         # Loaded(filename).contents[entry].task_total_time
                   /\ WithinTolerance(jsonl_contents[entry],
                                      Loaded(filename).contents[entry]) )
                    => /\ dpc' = "listing"
                       /\ entry \in DOMAIN jsonl_contents'
                       /\ \E w \in warnings' \ warnings : w.entry = entry
      ]_vars

\* C12 (amended): when the records of two files for one key have task_total_time
\* values at most 1 second apart, no task_total_time warning is reported for the
\* key; if exactly one of the two records carries state_transitions the key raises
\* no error and a record for it is stored; if both or neither carry it, the key
\* raises the conflicting-record error exactly when the two records differ in some
\* field, a task_total_time 1 second off included.
C12_WithinToleranceMerge ==
    [][ VisitsLoadedFile =>
          LET filename == visited'[Len(visited')]
          IN  \A entry \in MetEntries :
                 LET existing == jsonl_contents[entry]
                     incoming == Loaded(filename).contents[entry]
                     raisedHere == dpc' = "raised" /\ derr'.entry = entry
                 IN  WithinTolerance(existing, incoming) =>
                        /\ ~ \E w \in warnings' \ warnings :
                                w.entry = entry /\ w.field = "task_total_time"
                        /\ HasTransitions(existing) # HasTransitions(incoming)
                              => /\ ~raisedHere
                                 /\ entry \in DOMAIN jsonl_contents'
                                 /\ dpc' = "listing" =>
                                       HasTransitions(jsonl_contents'[entry])
                        /\ HasTransitions(existing) = HasTransitions(incoming)
                              => /\ raisedHere <=> Differ(existing, incoming)
                                 /\ existing.task_total_time # incoming.task_total_time
                                       => raisedHere
      ]_vars

\* A directory returned without any warning whose record carries a sequence of
\* total time 3 next to a pre-aggregated total time of 4.
C12_Witness ==
    /\ dpc = "returned"
    /\ warnings = {}
    /\ \E key \in DOMAIN jsonl_contents :
          /\ HasTransitions(jsonl_contents[key])
          /\ jsonl_contents[key].task_total_time = 4
          /\ SumOfDeltas(jsonl_contents[key].state_transitions) = 3

\* The directory's .jsonl files are two or more identical copies of one
\* State-Transition file, and it holds no task_metadata.csv.
CopiesOfOneStateTransitionFile ==
    /\ Cardinality(JsonlNames) >= 2
    /\ task_metadata_csv \notin DOMAIN dir_files
    /\ \A f, g \in JsonlNames : dir_files[f] = dir_files[g]
    /\ \A f \in JsonlNames :
          /\ ~verify_all_subject_task_fields_present(dir_files[f][1])
          /\ verify_all_state_transition_fields_present(dir_files[f][1])

\* C13: a directory holding identical copies of one State-Transition file ends as
\* the load of one copy alone ends: if one copy loads, every copy is merged without
\* a warning and without a conflict and the mapping is, apart from file_source, the
\* one the single file yields; if one copy fails, the directory fails the same way.
C13_IdenticalCopiesIdempotent ==
    CopiesOfOneStateTransitionFile =>
        LET alone == load_state_transitions_file(
                         dir_files[CHOOSE f \in JsonlNames : TRUE])
            merged == { visited[i] : i \in 1..Len(visited) } \cap JsonlNames
        IN  /\ warnings = {}
            /\ derr.kind # "conflict"
            /\ alone.err = "" =>
                  /\ dpc # "raised"
                  /\ merged # {} => SameMapping(jsonl_contents, alone.contents)
            /\ alone.err # "" =>
                  /\ dpc # "returned"
                  /\ dpc = "raised" => derr.kind = alone.err

\* A directory of two copies of a file with two interleaved sessions, returned.
C13_Witness ==
    /\ CopiesOfOneStateTransitionFile
    /\ dpc = "returned"
    /\ Cardinality(DOMAIN jsonl_contents) = 2
    /\ \E i, j \in 1..Len(visited) :
          i # j /\ FileExt(visited[i]) = ".jsonl" /\ FileExt(visited[j]) = ".jsonl"

\* The keys met in this step whose two records both carry state_transitions or both
\* lack it and are equal apart from file_source.
PassEqualityCheck ==
    { entry \in MetEntries :
        LET existing == jsonl_contents[entry]
            incoming == Loaded(visited'[Len(visited')]).contents[entry]
        IN  /\ HasTransitions(existing) = HasTransitions(incoming)
            /\ ~Differ(existing, incoming) }

\* C14 (as claimed): when the incoming record of an already-present key passes the
\* both-or-neither equality check, the stored record keeps the existing record's
\* fields and its file_source becomes the incoming file's name.
C14_EqualRecordTakesIncomingSource ==
    [][ VisitsLoadedFile =>
          \A entry \in PassEqualityCheck :
             jsonl_contents'[entry]
                = Put(jsonl_contents[entry], "file_source", visited'[Len(visited')])
      ]_vars

\* C14 (amended): when the incoming record of an already-present key passes the
\* both-or-neither equality check, the stored record is left as it was, file_source
\* included; among the keys met, file_source becomes the incoming file's name only
\* for a key whose existing record carries state_transitions and whose incoming
\* record does not.
C14_EqualRecordKeepsSource ==
    [][ VisitsLoadedFile =>
          LET filename == visited'[Len(visited')]
          IN  /\ \A entry \in PassEqualityCheck :
                    /\ jsonl_contents'[entry] = jsonl_contents[entry]
                    /\ jsonl_contents'[entry].file_source # filename
              /\ \A entry \in MetEntries :
                    ~(dpc' = "raised" /\ derr'.entry = entry) =>
                       ( jsonl_contents'[entry].file_source = filename
                           <=> /\ HasTransitions(jsonl_contents[entry])
                               /\ ~HasTransitions(Loaded(filename).contents[entry]) )
      ]_vars

\* A returned directory in which a file visited later holds, for some key, a record
\* equal to the stored one, whose file_source still names the first file.
C14_Witness ==
    /\ dpc = "returned"
    /\ \E key \in DOMAIN jsonl_contents :
          /\ jsonl_contents[key].file_source = visited[1]
          /\ \E i \in 2..Len(visited) :
                /\ FileExt(visited[i]) = ".jsonl"
                /\ key \in DOMAIN Loaded(visited[i]).contents
                /\ DictEqual(Loaded(visited[i]).contents[key],
                             Without(jsonl_contents[key], "file_source"))

---------------------------------------------------------------------------
(* Further properties of load_state_transitions_file (checked under Spec) *)

\* C15: a line that is the first event of its session key and whose state is not
\* task_initialized is rejected with the invalid-initial-state error; at end of
\* file, a key whose only event is a single task_initialized makes the load fail
\* with the invalid-final-state error; a load that raised returns no record, and a
\* load that returned holds no such key.
C15_BoundaryStatesRejected ==
    /\ pc = "reading" =>
          /\ \A raw \in WellFormedEvents :
                ( /\ Identifier(raw) \notin FileKeys
                  /\ raw.state_id # "task_initialized" )
                => LineError(subject_task_state, raw) = "invalid_initial_state"
          /\ (\E key \in FileKeys :
                 /\ Len(KeyEvents(key)) = 1
                 /\ KeyEvents(key)[1].state_id = "task_initialized")
             => FinalError(state_transitions) = "invalid_final_state"
    /\ pc = "raised" => result = EmptyMap
    /\ pc = "returned" =>
          \A key \in FileKeys :
             /\ KeyEvents(key)[1].state_id = "task_initialized"
             /\ Len(KeyEvents(key)) >= 2

\* A file with a concluded session and a second session holding a single
\* task_initialized event, rejected at end of file with nothing returned.
C15_Witness ==
    /\ pc = "raised"
    /\ err = "invalid_final_state"
    /\ result = EmptyMap
    /\ \E key, other \in FileKeys :
          /\ Len(KeyEvents(key)) = 1
          /\ KeyEvents(key)[1].state_id = "task_initialized"
          /\ KeyEvents(other)[Len(KeyEvents(other))].state_id = "task_conclusion"

\* The well-formed lines that repeat the state of the last event of their key.
SelfLoopLines ==
    { raw \in WellFormedEvents :
        /\ Identifier(raw) \in DOMAIN subject_task_state
        /\ subject_task_state[Identifier(raw)].state_id = raw.state_id }

\* C16 (as claimed): a line that follows a km_pull_activity (km_push_activity) event
\* of its key with the same state is rejected with the invalid-transition error,
\* whatever the two timestamps are.
C16_ActivitySelfLoopInvalidTransition ==
    pc = "reading" =>
        \A raw \in SelfLoopLines :
           raw.state_id \in {"km_pull_activity", "km_push_activity"}
              => LineError(subject_task_state, raw) = "invalid_transition"

\* C16 (amended): a line that follows a km_pull_activity (km_push_activity) event
\* of its key with the same state is rejected whatever the two timestamps are: with
\* the invalid-transition error when its timestamp is later than the previous one,
\* with the out-of-order error when it is not; of all self-loops only
\* task_execution -> task_execution, with a later timestamp, is accepted.
C16_ActivitySelfLoopRejected ==
    pc = "reading" =>
        \A raw \in SelfLoopLines :
           LET t1 == subject_task_state[Identifier(raw)].utc_timestamp
               t2 == iso_str_as_datetime(raw.utc_timestamp)
           IN  /\ raw.state_id \in {"km_pull_activity", "km_push_activity"}
                     => LineError(subject_task_state, raw)
                           = IF t2 > t1 THEN "invalid_transition" ELSE "out_of_order"
               /\ LineError(subject_task_state, raw) = ""
                     <=> (raw.state_id = "task_execution" /\ t2 > t1)

\* A session whose last event is a km_pull_activity at an instant that has both an
\* earlier and a later instant left for the next line.
C16_Witness ==
    /\ pc = "reading"
    /\ \E raw, later \in SelfLoopLines :
          /\ raw.state_id = "km_pull_activity"
          /\ later.state_id = "km_pull_activity"
          /\ LineError(subject_task_state, raw) = "out_of_order"
          /\ LineError(subject_task_state, later) = "invalid_transition"

\* The well-formed lines whose timestamp equals that of the last event of their key.
EqualTimestampLines ==
    { raw \in WellFormedEvents :
        /\ Identifier(raw) \in DOMAIN subject_task_state
        /\ subject_task_state[Identifier(raw)].utc_timestamp
              = iso_str_as_datetime(raw.utc_timestamp) }

\* C17: a line whose timestamp equals the timestamp of the previous event of its key
\* passes the ordering check if the previous state is task_initialized (it is then
\* accepted exactly when the edge is legal) and is rejected with the out-of-order
\* error after any other state; an accepted line of equal timestamp leaves the three
\* aggregates of its key as they were; the sequence (0, task_initialized),
\* (0, km_pull_activity), (1, task_execution), (3, task_conclusion), Scenario A in
\* units of 30 seconds, returns total 3, pull 1, push 0.
C17_ZeroDurationInitialEvent ==
    /\ [] ( pc = "reading" =>
              \A raw \in EqualTimestampLines :
                 LET previous_state == subject_task_state[Identifier(raw)]
                 IN  IF previous_state.state_id = "task_initialized"
                     THEN /\ LineError(subject_task_state, raw) # "out_of_order"
                          /\ LineError(subject_task_state, raw) = ""
                                <=> LegalEdge("task_initialized", raw.state_id)
                     ELSE LineError(subject_task_state, raw) = "out_of_order" )
    /\ [] ( pc = "returned" =>
              \A key \in FileKeys :
                 LET evs == KeyEvents(key)
                 IN  ( /\ Len(evs) = 4
                       /\ << evs[1].utc_timestamp, evs[2].utc_timestamp,
                             evs[3].utc_timestamp, evs[4].utc_timestamp >> = <<0, 0, 1, 3>>
                       /\ << evs[1].state_id, evs[2].state_id,
                             evs[3].state_id, evs[4].state_id >>
                            = << "task_initialized", "km_pull_activity",
                                 "task_execution", "task_conclusion" >> )
                     => /\ result[key].task_total_time = 3
                        /\ result[key].km_pull_total_time = 1
                        /\ result[key].km_push_total_time = 0 )
    /\ [][ ( /\ Len(lines') = Len(lines) + 1
             /\ lines'[Len(lines')] \in EqualTimestampLines )
           => LET key == Identifier(lines'[Len(lines')])
              IN  /\ subject_task_state[key].state_id = "task_initialized"
                  /\ state_transitions'[key].task_total_time
                        = state_transitions[key].task_total_time
                  /\ state_transitions'[key].km_pull_total_time
                        = state_transitions[key].km_pull_total_time
                  /\ state_transitions'[key].km_push_total_time
                        = state_transitions[key].km_push_total_time
         ]_vars

\* Scenario A returned: a zero-duration task_initialized followed by a pull activity
\* that is exited later.
C17_Witness ==
    /\ pc = "returned"
    /\ \E key \in DOMAIN result :
          LET seq == result[key].state_transitions
          IN  /\ Len(seq) = 4
              /\ seq[1].utc_timestamp = seq[2].utc_timestamp
              /\ seq[2].state_id = "km_pull_activity"
              /\ result[key].km_pull_total_time = 1
              /\ result[key].task_total_time = 3

\* Some session key of the lines read so far has a last event other than
\* task_conclusion.
SomeSessionOpen ==
    \E key \in FileKeys : KeyEvents(key)[Len(KeyEvents(key))].state_id # "task_conclusion"

\* C18: the final-state requirement is enforced at end of file only.  While lines
\* are read, no line is rejected with the invalid-final-state error, whether or not
\* a session is open, and reading a line never ends the load; at end of file the
\* load fails with the invalid-final-state error if and only if some key's last
\* event is not task_conclusion, and otherwise returns.
C18_FinalStateCheckedAtEndOfFileOnly ==
    /\ [] ( pc = "reading" =>
              /\ \A raw \in RawLines :
                    LineError(subject_task_state, raw) # "invalid_final_state"
              /\ FinalError(state_transitions) = "invalid_final_state"
                    <=> SomeSessionOpen )
    /\ [][ /\ (pc = "reading" /\ lines' # lines) => (pc' = "reading" /\ err' = "")
           /\ (pc = "reading" /\ pc' = "raised" /\ err' = "invalid_final_state")
                 => (lines' = lines /\ SomeSessionOpen)
           /\ (pc = "reading" /\ pc' = "raised" /\ err' # "invalid_final_state")
                 => \E raw \in RawLines : LineError(subject_task_state, raw) = err'
           /\ (pc = "reading" /\ pc' = "returned")
                 => (lines' = lines /\ ~SomeSessionOpen)
         ]_vars

\* A returned file in which the session of the first line is concluded by the last
\* line, after the lines of another session were read.
C18_Witness ==
    /\ pc = "returned"
    /\ Len(lines) = 4
    /\ Identifier(ParsedLines[1]) = Identifier(ParsedLines[4])
    /\ Identifier(ParsedLines[1]) # Identifier(ParsedLines[2])
    /\ Identifier(ParsedLines[1]) # Identifier(ParsedLines[3])

\* The lines of one session key, in file order.
KeyLines(key) == SelectSeq(lines, LAMBDA raw : Identifier(raw) = key)

\* The while loop of load_state_transitions_file run over a file from its start.
FoldAlone(file) ==
    FoldStateTransitionLines([ line_no |-> 1, subject_task_state |-> EmptyMap,
                               state_transitions |-> EmptyMap ], file, 1)

\* C19: sessions interleaved in one file are validated and reduced independently.
\* The record built for a key from the lines read so far is the record built from
\* the key's own lines alone; a next line is accepted, or rejected with some error,
\* exactly as it is after its key's own lines alone; the end-of-file check passes
\* exactly when every key's own lines load alone; and every returned record equals
\* the record returned for the key's own lines alone.
C19_SessionsIndependent ==
    [] (
        /\ pc = "reading" =>
              \A key \in FileKeys \cup { Identifier(raw) : raw \in RawLines } :
                 LET alone == FoldAlone(KeyLines(key))
                 IN  /\ alone.err = ""
                     /\ key \in FileKeys
                           => alone.ld.state_transitions[key] = state_transitions[key]
                     /\ \A raw \in RawLines :
                           Identifier(raw) = key
                              => LineError(subject_task_state, raw)
                                    = LineError(alone.ld.subject_task_state, raw)
        /\ pc # "raised" =>
              LET loadedAlone == [ key \in FileKeys |->
                                     load_state_transitions_file(KeyLines(key)) ]
              IN  /\ pc = "reading" =>
                        ( FinalError(state_transitions) = ""
                             <=> \A key \in FileKeys : loadedAlone[key].err = "" )
                  /\ pc = "returned" =>
                        /\ DOMAIN result = FileKeys
                        /\ \A key \in FileKeys :
                              /\ loadedAlone[key].err = ""
                              /\ result[key] = loadedAlone[key].contents[key]
        /\ (pc = "raised" /\ err = "invalid_final_state") =>
              \E key \in FileKeys :
                 load_state_transitions_file(KeyLines(key)).err = "invalid_final_state"
       )

\* A returned file whose four lines alternate between two sessions.
C19_Witness ==
    /\ pc = "returned"
    /\ Len(lines) = 4
    /\ Cardinality(DOMAIN result) = 2
    /\ Identifier(ParsedLines[1]) = Identifier(ParsedLines[3])
    /\ Identifier(ParsedLines[2]) = Identifier(ParsedLines[4])

---------------------------------------------------------------------------
(* Further properties of load_directory (checked under SpecDir) *)

\* The step visits a .jsonl file; the file is the last of visited'.
VisitsJsonlFile ==
    /\ dpc = "listing"
    /\ Len(visited') = Len(visited) + 1
    /\ FileExt(visited'[Len(visited')]) = ".jsonl"

\* The file visited in this step fails a check: it does not load (schema, parse,
\* transition, ordering, boundary-state or format error), or one of its records
\* meets a stored record of the same shape that differs from it.
VisitedFileFails ==
    LET filename == visited'[Len(visited')]
    IN  \/ Loaded(filename).err # ""
        \/ \E entry \in (DOMAIN Loaded(filename).contents) \cap (DOMAIN jsonl_contents) :
              /\ HasTransitions(jsonl_contents[entry])
                    = HasTransitions(Loaded(filename).contents[entry])
              /\ Differ(jsonl_contents[entry], Loaded(filename).contents[entry])

\* C20: load_directory fails fast and returns no partial result.  The visit of a
\* file that fails a check raises, naming that file, and the visit of any other
\* file does not; a file that does not load adds nothing to the mapping; once
\* raised, no further file is visited and nothing is returned; and a directory is
\* returned only after every one of its .jsonl files was loaded and merged.
C20_FailFastNoPartialResult ==
    /\ [][ VisitsJsonlFile =>
             LET filename == visited'[Len(visited')]
             IN  /\ VisitedFileFails
                    => /\ dpc' = "raised"
                       /\ derr' # NoError
                       /\ derr'.new_file = filename
                 /\ ~VisitedFileFails => (dpc' = "listing" /\ derr' = NoError)
                 /\ Loaded(filename).err # ""
                    => (jsonl_contents' = jsonl_contents /\ derr'.kind = Loaded(filename).err)
         ]_vars
    /\ [][ dpc # "raised" ]_vars
    /\ [][ dpc' = "returned" => Unvisited = {} ]_vars
    /\ [] ( dpc = "raised" => derr # NoError )
    /\ [] ( dpc = "returned" =>
              /\ derr = NoError
              /\ \A filename \in JsonlNames :
                    /\ Loaded(filename).err = ""
                    /\ \E i \in 1..Len(visited) : visited[i] = filename )

\* A directory whose load raised after the records of an earlier file were merged
\* and while a file was still unvisited.
C20_Witness ==
    /\ dpc = "raised"
    /\ jsonl_contents # EmptyMap
    /\ Unvisited # {}
    /\ \E filename \in Unvisited : FileExt(filename) = ".jsonl"

---------------------------------------------------------------------------
(* SpecJsonl: one call of load_jsonl_file on a file of typed records *)

MaxRecords == 2

jsonl_file_types == <<"Subject-Task", "State Transitions">>

SJ0 == SubjectTaskLine(<<"T1">>, IsoText(0, 0), 3, 2, 1)
TI0 == E1(0, "task_initialized")
TC0 == E1(1, "task_conclusion")

\* Subject-Task lines: well-formed ones (two of them of one key), ones carrying
\* optional_content or a field no table declares, ones whose declared fields hold
\* a value of another class or set, ones lacking fields, ones whose subject_id or
\* task_id holds an underscore.
SubjectTaskLines ==
    { SJ0,
      SubjectTaskLine(<<"T1">>, IsoText(1, 0), 4, 0, 2),
      SubjectTaskLine(<<"T2">>, IsoText(0, 0), 3, 2, 1),
      Put(SJ0, "optional_content", JsonValue("dict", "{}")),
      Put(SJ0, "optional_content", JsonValue("str", "see notes")),
      Put(SJ0, "note", JsonValue("str", "see notes")),
      Put(SJ0, "note", JsonValue("list", "[]")),
      Put(Put(SJ0, "utc_timestamp", IsoText(0, 0)), "state_id", "task_paused"),
      [SJ0 EXCEPT !.task_timeout = JsonValue("str", "no")],
      [SJ0 EXCEPT !.nugget_content = JsonValue("dict", "{}")],
      [SJ0 EXCEPT !.corpus_knowledge_nugget_count = JsonValue("float", "1.5")],
      [SJ0 EXCEPT !.corpus_knowledge_nugget_count = JsonValue("bool", "true")],
      [SJ0 EXCEPT !.task_grade = JsonValue("list", "[]")],
      [SJ0 EXCEPT !.task_grade = JsonValue("str", "pass")],
      [SJ0 EXCEPT !.condition = "control"],
      [SJ0 EXCEPT !.task_start_time = MalformedIsoText],
      Without(SJ0, "task_grade"),
      Without(Without(SJ0, "task_timeout"), "subject_id"),
      [SJ0 EXCEPT !.subject_id = <<"U1", "_", "prototype">>],
      [SJ0 EXCEPT !.task_id = <<"prototype", "_", "T1">>, !.task_grade = JsonValue("int", 2)] }

\* State-Transition lines of the same kinds, and one line of neither shape.
StateTransitionLines ==
    { TI0, TC0,
      Put(TI0, "optional_content", JsonValue("dict", "{}")),
      Put(TI0, "optional_content", JsonValue("str", "see notes")),
      Put(TC0, "optional_content", JsonValue("list", "[]")),
      Put(TI0, "note", JsonValue("int", "7")),
      Put(TC0, "task_grade", JsonValue("dict", "{}")),
      [TI0 EXCEPT !.state_id = "task_paused"],
      [TC0 EXCEPT !.condition = "control"],
      Without(TI0, "state_id"),
      Without(Without(TC0, "utc_timestamp"), "task_id"),
      [TI0 EXCEPT !.subject_id = <<"U1", "_", "prototype">>],
      [TC0 EXCEPT !.task_id = <<"prototype", "_", "T1">>],
      [subject_id |-> <<"U1">>, condition |-> "prototype"] }

JsonLines == SubjectTaskLines \cup StateTransitionLines

\* The exception a presence check raises: the first field of the table, in the
\* table's order, that the input lacks.
AttributeNotFound(schema, input, at_line, filename) ==
    [ kind |-> "missing_field", attr |-> MissingFields(schema, input)[1],
      line_no |-> at_line, filename |-> filename ]

\* The exception a loader raises for the file, from the kind and the line its
\* result names.
LoaderError(schema, loaded, file, filename) ==
    IF loaded.err = "missing_field"
    THEN AttributeNotFound(schema, file[loaded.line_no], loaded.line_no, filename)
    ELSE [ kind |-> loaded.err, attr |-> "", line_no |-> loaded.line_no,
           filename |-> filename ]

InitJsonl ==
    /\ \E n \in 1..MaxRecords :
         \E file \in [1..n -> JsonLines] :
            call_args = [jsonl_filename |-> "sessions.jsonl", jsonl_file |-> file]
    /\ call_out = <<>>
    /\ call_pc = "opened"
    /\ LoaderIdle
    /\ DirIdle

\* The identification with the State-Transition shape tried first.
IdentifyFileType_state_transitions_first ==
    /\ call_pc = "opened"
    /\ LET first_line_json == call_args.jsonl_file[1]
           filename == call_args.jsonl_filename
       IN  IF verify_all_state_transition_fields_present(first_line_json)
           THEN /\ call_out' = [file_type |-> jsonl_file_types[2]]
                /\ call_pc' = "identified"
           ELSE IF verify_all_subject_task_fields_present(first_line_json)
           THEN /\ call_out' = [file_type |-> jsonl_file_types[1]]
                /\ call_pc' = "identified"
           ELSE /\ call_out' =
                      [ error |->
                          [ kind |-> "unrecognized_format", filename |-> filename,
                            err1 |-> AttributeNotFound(subject_task_schema,
                                                       first_line_json, 1, filename),
                            err2 |-> AttributeNotFound(state_transition_schema,
                                                       first_line_json, 1, filename) ] ]
                /\ call_pc' = "raised"
    /\ UNCHANGED <<call_args, loader_vars, dir_vars>>

\* Lines 119-135: the file type is decided by the presence checks of the first
\* line, Subject-Task first.
IdentifyFileType ==
    /\ call_pc = "opened"
    /\ LET first_line_json == call_args.jsonl_file[1]
           filename == call_args.jsonl_filename
       IN  IF verify_all_subject_task_fields_present(first_line_json)
           THEN /\ call_out' = [file_type |-> jsonl_file_types[1]]
                /\ call_pc' = "identified"
           ELSE IF verify_all_state_transition_fields_present(first_line_json)
           THEN /\ call_out' = [file_type |-> jsonl_file_types[2]]
                /\ call_pc' = "identified"
           ELSE /\ call_out' =
                      [ error |->
                          [ kind |-> "unrecognized_format", filename |-> filename,
                            err1 |-> AttributeNotFound(subject_task_schema,
                                                       first_line_json, 1, filename),
                            err2 |-> AttributeNotFound(state_transition_schema,
                                                       first_line_json, 1, filename) ] ]
                /\ call_pc' = "raised"
    /\ UNCHANGED <<call_args, loader_vars, dir_vars>>

\* The Subject-Task branch with only the line that decided the shape loaded.
LoadSubjectTaskFile_first_line_only ==
    /\ call_pc = "identified"
    /\ call_out.file_type = jsonl_file_types[1]
    /\ LET file == SubSeq(call_args.jsonl_file, 1, 1)
           loaded == load_subject_task_file(file)
       IN  IF loaded.err = ""
           THEN /\ call_out' = [file_type |-> call_out.file_type,
                                contents |-> loaded.contents]
                /\ call_pc' = "returned"
           ELSE /\ call_out' = [file_type |-> call_out.file_type,
                                error |-> LoaderError(subject_task_schema, loaded, file,
                                                      call_args.jsonl_filename)]
                /\ call_pc' = "raised"
    /\ UNCHANGED <<call_args, loader_vars, dir_vars>>

\* Lines 138-141.
LoadSubjectTaskFile ==
    /\ call_pc = "identified"
    /\ call_out.file_type = jsonl_file_types[1]
    /\ LET file == call_args.jsonl_file
           loaded == load_subject_task_file(file)
       IN  IF loaded.err = ""
           THEN /\ call_out' = [file_type |-> call_out.file_type,
                                contents |-> loaded.contents]
                /\ call_pc' = "returned"
           ELSE /\ call_out' = [file_type |-> call_out.file_type,
                                error |-> LoaderError(subject_task_schema, loaded, file,
                                                      call_args.jsonl_filename)]
                /\ call_pc' = "raised"
    /\ UNCHANGED <<call_args, loader_vars, dir_vars>>

\* Lines 143-146.
LoadStateTransitionsFile ==
    /\ call_pc = "identified"
    /\ call_out.file_type = jsonl_file_types[2]
    /\ LET file == call_args.jsonl_file
           loaded == load_state_transitions_file(file)
       IN  IF loaded.err = ""
           THEN /\ call_out' = [file_type |-> call_out.file_type,
                                contents |-> loaded.contents]
                /\ call_pc' = "returned"
           ELSE /\ call_out' = [file_type |-> call_out.file_type,
                                error |-> LoaderError(state_transition_schema, loaded,
                                                      file, call_args.jsonl_filename)]
                /\ call_pc' = "raised"
    /\ UNCHANGED <<call_args, loader_vars, dir_vars>>

NextJsonl == IdentifyFileType \/ LoadSubjectTaskFile \/ LoadStateTransitionsFile

SpecJsonl == InitJsonl /\ [][NextJsonl]_vars

---------------------------------------------------------------------------
---------------------------------------------------------------------------
(* validate_utils.py: CSV validation; file_utils.py: load_csv_file *)

MaxColumns == 5

---------------------------------------------------------------------------
(* SpecCsv: one call of load_csv_file on a header and at most one data row *)

ColumnNames == Range(required_column_names) \cup Range(optional_column_names) \cup {"notes"}

Headers == UNION { [1..n -> ColumnNames] : n \in 3..MaxColumns }

\* The data rows of a header: as many cells as the header has names, a task id
\* first, and cells past the fourth (never converted) all the same.
Rows(column_names) ==
    { row \in [1..Len(column_names) -> { Cell(text) : text \in CellTexts \cup {"T1"} }] :
        /\ row[1] = Cell("T1")
        /\ \A j \in 2..Len(row) : row[j].value \in CellTexts
        /\ \A j \in 5..Len(row) : row[j] = Cell("7") }

InitCsv ==
    /\ \E column_names \in Headers : call_args = [column_names |-> column_names]
    /\ call_out = <<>>
    /\ call_pc = "opened"
    /\ LoaderIdle
    /\ DirIdle

\* Lines 334-336: the first row is the header.
VerifyColumnNames ==
    /\ call_pc = "opened"
    /\ \E extra_listing \in Listings(Range(call_args.column_names)
                                        \ Range(required_column_names)) :
          LET error == verify_column_names(call_args.column_names, extra_listing)
          IN  IF error = NoError
              THEN /\ call_out' = [tasks |-> EmptyMap, rows |-> <<>>]
                   /\ call_pc' = "reading"
              ELSE /\ call_out' = [error |-> error]
                   /\ call_pc' = "raised"
    /\ UNCHANGED <<call_args, loader_vars, dir_vars>>

\* Lines 337-345: a data row (line 2 of the file).
ReadRow ==
    /\ call_pc = "reading"
    /\ call_out.rows = <<>>
    /\ \E row \in Rows(call_args.column_names) :
          LET verified == verify_row_types(row, 2)
          IN  IF verified.err = ""
              THEN /\ call_out' =
                          [ tasks |-> Put(call_out.tasks, verified.row[1].value,
                                          Attributes(call_args.column_names,
                                                     verified.row)),
                            rows |-> <<row>> ]
                   /\ call_pc' = "reading"
              ELSE /\ call_out' = [ error |-> [kind |-> verified.err,
                                               row_no |-> verified.row_no],
                                    rows |-> <<row>> ]
                   /\ call_pc' = "raised"
    /\ UNCHANGED <<call_args, loader_vars, dir_vars>>

\* Line 347: end of file.
ReturnTasks ==
    /\ call_pc = "reading"
    /\ call_pc' = "returned"
    /\ UNCHANGED <<call_args, call_out, loader_vars, dir_vars>>

NextCsv == VerifyColumnNames \/ ReadRow \/ ReturnTasks

SpecCsv == InitCsv /\ [][NextCsv]_vars

---------------------------------------------------------------------------
(* metrics_utils.py: filter_jsonl_input *)

\* str.startswith, str.endswith and the in operator of str, on texts held as
\* sequences of tokens (no token contains "_" or another token).
StartsWith(text, prefix) ==
    Len(prefix) <= Len(text) /\ SubSeq(text, 1, Len(prefix)) = prefix

EndsWith(text, suffix) ==
    Len(suffix) <= Len(text)
        /\ SubSeq(text, Len(text) - Len(suffix) + 1, Len(text)) = suffix

Contains(text, infix) ==
    \E i \in 1..(Len(text) - Len(infix) + 1) :
        SubSeq(text, i, i + Len(infix) - 1) = infix

\* A parameter left at None (falsy, like the empty text).
None == <<>>

\* Lines 36-37, 38-39, 40-41: each filter rebinds jsonl_input to the entries whose
\* key passes the test, or leaves it when the parameter is falsy.
Restrict(jsonl_input, keep) == [ key \in keep |-> jsonl_input[key] ]

filter_by_subject(jsonl_input, subject) ==
    IF subject = None THEN jsonl_input
    ELSE Restrict(jsonl_input,
                  { key \in DOMAIN jsonl_input : StartsWith(key, subject \o <<"_">>) })

filter_by_condition(jsonl_input, condition) ==
    IF condition = None THEN jsonl_input
    ELSE Restrict(jsonl_input,
                  { key \in DOMAIN jsonl_input :
                        Contains(key, <<"_">> \o condition \o <<"_">>) })

filter_by_task(jsonl_input, task) ==
    IF task = None THEN jsonl_input
    ELSE Restrict(jsonl_input,
                  { key \in DOMAIN jsonl_input : EndsWith(key, <<"_">> \o task) })

---------------------------------------------------------------------------
(* SpecFilter: one call of filter_jsonl_input on a loaded mapping *)

MaxEntries == 2

\* Identifiers with and without "_" and a condition name inside.
FilterSubjects == { <<"U1">>, <<"U1", "_", "b">>, <<"U2">> }
FilterTasks == { <<"T1">>, <<"b", "_", "T1">>, <<"prototype", "_", "T1">> }

FilterRecords ==
    { [subject_id |-> subject, condition |-> condition, task_id |-> task] :
        subject \in FilterSubjects, condition \in conditions, task \in FilterTasks }

\* The mapping a loader returns for the records: each under the key of its fields.
KeyedByIdentifier(records) ==
    [ key \in { Identifier(r) : r \in records } |->
        CHOOSE r \in records : Identifier(r) = key ]

InitFilter ==
    /\ \E records \in { S \in SUBSET FilterRecords : Cardinality(S) <= MaxEntries } :
         \E subject \in FilterSubjects \cup {None} :
            \E condition \in { <<c>> : c \in conditions } \cup {None} :
               \E task \in FilterTasks \cup {None} :
                  /\ call_args = [ jsonl_input |-> KeyedByIdentifier(records),
                                   subject |-> subject, condition |-> condition,
                                   task |-> task ]
                  /\ call_out = KeyedByIdentifier(records)
    /\ call_pc = "subject"
    /\ LoaderIdle
    /\ DirIdle

FilterSubject ==
    /\ call_pc = "subject"
    /\ call_out' = filter_by_subject(call_out, call_args.subject)
    /\ call_pc' = "condition"
    /\ UNCHANGED <<call_args, loader_vars, dir_vars>>

FilterCondition ==
    /\ call_pc = "condition"
    /\ call_out' = filter_by_condition(call_out, call_args.condition)
    /\ call_pc' = "task"
    /\ UNCHANGED <<call_args, loader_vars, dir_vars>>

FilterTask ==
    /\ call_pc = "task"
    /\ call_out' = filter_by_task(call_out, call_args.task)
    /\ call_pc' = "returned"
    /\ UNCHANGED <<call_args, loader_vars, dir_vars>>

NextFilter == FilterSubject \/ FilterCondition \/ FilterTask

SpecFilter == InitFilter /\ [][NextFilter]_vars

(* Properties of load_jsonl_file and of the record validators (checked under SpecJsonl) *)

\* The fields each shape requires (every field of its table but optional_content).
SubjectTaskRequired ==
    { "subject_id", "condition", "task_id", "task_start_time", "task_total_time",
      "km_pull_total_time", "km_push_total_time", "task_grade",
      "corpus_knowledge_nugget_count", "expert_captured_knowledge_nugget_count",
      "nugget_content", "task_timeout" }

StateTransitionRequired ==
    { "subject_id", "condition", "task_id", "utc_timestamp", "state_id" }

HasAll(required, record) == required \subseteq DOMAIN record

\* The call is over and its outcome is the outcome of the given loader on the
\* whole file.
OutcomeOf(loaded) ==
    \/ call_pc = "returned" /\ loaded.err = "" /\ call_out.contents = loaded.contents
    \/ call_pc = "raised" /\ loaded.err # "" /\ call_out.error.kind = loaded.err

\* The error names a required field the first line lacks, line 1 and the file.
ReportsMissing(error, required) ==
    /\ error.kind = "missing_field"
    /\ error.attr \in required \ DOMAIN call_args.jsonl_file[1]
    /\ error.line_no = 1
    /\ error.filename = call_args.jsonl_filename

\* C21: load_jsonl_file classifies the file from its first line only: a first line
\* with all Subject-Task fields sends the whole file to the Subject-Task loader,
\* also when that line has all State-Transition fields too; otherwise a first line
\* with all State-Transition fields sends it to the State-Transition loader; a
\* first line of neither shape raises the unrecognized-format error, which carries
\* the errors of both presence checks.
C21_ClassifiedByFirstLine ==
    call_pc # "opened" =>
        LET file == call_args.jsonl_file
            first == file[1]
        IN  IF HasAll(SubjectTaskRequired, first)
            THEN /\ call_out.file_type = "Subject-Task"
                 /\ call_pc # "identified" => OutcomeOf(load_subject_task_file(file))
            ELSE IF HasAll(StateTransitionRequired, first)
            THEN /\ call_out.file_type = "State Transitions"
                 /\ call_pc # "identified"
                        => OutcomeOf(load_state_transitions_file(file))
            ELSE /\ call_pc = "raised"
                 /\ call_out.error.kind = "unrecognized_format"
                 /\ call_out.error.filename = call_args.jsonl_filename
                 /\ ReportsMissing(call_out.error.err1, SubjectTaskRequired)
                 /\ ReportsMissing(call_out.error.err2, StateTransitionRequired)

\* A file whose first line has the fields of both shapes and whose second line has
\* only those of a State-Transition event: loaded as Subject-Task, the second line
\* fails the presence check.
C21_Witness ==
    /\ call_pc = "raised"
    /\ Len(call_args.jsonl_file) = 2
    /\ HasAll(SubjectTaskRequired \cup StateTransitionRequired, call_args.jsonl_file[1])
    /\ ~HasAll(SubjectTaskRequired, call_args.jsonl_file[2])
    /\ HasAll(StateTransitionRequired, call_args.jsonl_file[2])
    /\ call_out.file_type = "Subject-Task"
    /\ call_out.error.kind = "missing_field"
    /\ call_out.error.line_no = 2

\* The table and the required fields of the shape the file was identified as.
ShapeSchema ==
    IF call_out.file_type = "Subject-Task" THEN subject_task_schema
    ELSE state_transition_schema

ShapeRequired ==
    IF call_out.file_type = "Subject-Task" THEN SubjectTaskRequired
    ELSE StateTransitionRequired

Position(schema, attr) == CHOOSE i \in 1..Len(schema) : schema[i] = attr

\* C22: a presence check accepts a record exactly when the record holds every field
\* of the shape's table other than optional_content, whose absence is the only one
\* tolerated; the failure names the first missing field in the table's order, the
\* 1-based number of the line and the file.
C22_PresenceCheck ==
    /\ call_pc # "idle" =>
         \A i \in 1..Len(call_args.jsonl_file) :
            LET record == call_args.jsonl_file[i]
            IN  /\ verify_all_subject_task_fields_present(record)
                      <=> HasAll(SubjectTaskRequired, record)
                /\ verify_all_state_transition_fields_present(record)
                      <=> HasAll(StateTransitionRequired, record)
    /\ (call_pc = "returned") =>
         \A i \in 1..Len(call_args.jsonl_file) :
            HasAll(ShapeRequired, call_args.jsonl_file[i])
    /\ (call_pc = "raised" /\ "file_type" \in DOMAIN call_out
            /\ call_out.error.kind = "missing_field") =>
         LET error == call_out.error
             file == call_args.jsonl_file
             missing == ShapeRequired \ DOMAIN file[error.line_no]
         IN  /\ error.line_no \in 1..Len(file)
             /\ \A i \in 1..(error.line_no - 1) : HasAll(ShapeRequired, file[i])
             /\ error.attr \in missing
             /\ \A other \in missing :
                    Position(ShapeSchema, error.attr) <= Position(ShapeSchema, other)
             /\ error.filename = call_args.jsonl_filename

\* A second line lacking two fields and optional_content: the error names the
\* earlier of the two in the table, on line 2.
C22_Witness ==
    /\ call_pc = "raised"
    /\ "file_type" \in DOMAIN call_out
    /\ call_out.error.kind = "missing_field"
    /\ call_out.error.line_no = 2
    /\ call_out.error.attr = "subject_id"
    /\ "task_timeout" \notin DOMAIN call_args.jsonl_file[2]
    /\ "optional_content" \notin DOMAIN call_args.jsonl_file[1]

\* The record with one more field, of a name neither table declares.
WithUndeclared(record, value) == Put(record, "reviewer_comment", value)

\* Values of every JSON class, for a field no table declares.
UndeclaredValues ==
    { JsonValue("str", "late"), JsonValue("int", "7"), JsonValue("float", "1.5"),
      JsonValue("bool", "true"), JsonValue("list", "[]"), JsonValue("dict", "{}"),
      JsonValue("NoneType", "null") }

\* The record as the loader of the identified shape type-checks it (the timestamp
\* parsed), and that type check.
Parsed(record) ==
    IF call_out.file_type = "Subject-Task"
    THEN [record EXCEPT !.task_start_time = iso_str_as_datetime(@)]
    ELSE [record EXCEPT !.utc_timestamp = iso_str_as_datetime(@)]

TypeCheck(record) ==
    IF call_out.file_type = "Subject-Task"
    THEN type_check_subject_task_fields(record)
    ELSE type_check_state_transition_fields(record)

\* The line's own validation (presence, timestamp parse, type check) passes.
ValidLine(record) ==
    /\ HasAll(ShapeRequired, record)
    /\ IsoStrParses(IF call_out.file_type = "Subject-Task"
                    THEN record.task_start_time ELSE record.utc_timestamp)
    /\ TypeCheck(Parsed(record))

\* A declared field of the record holds a value outside its declared classes or
\* its enumerated set.
OutsideDeclaredType(record) ==
    \/ record.condition \notin conditions
    \/ call_out.file_type = "State Transitions" /\ record.state_id \notin state_ids
    \/ \E attr \in ShapeRequired \cap JsonValued :
          LET declared == IF call_out.file_type = "Subject-Task"
                          THEN subject_task_types[attr]
                          ELSE state_transition_types[attr]
          IN  /\ record[attr].py_type \notin declared
              /\ ~(record[attr].py_type = "bool" /\ "int" \in declared)

\* C23: type checking never rejects a record because of a field with no declared
\* type: a valid record with one more undeclared field, of any value, is still
\* valid, and a one-line Subject-Task file of such a record is loaded; a required
\* field holding a value outside its declared type or enumerated set makes the
\* type check fail, with or without the undeclared fields, and the loader raise.
C23_UndeclaredFieldsIgnored ==
    call_pc \in {"returned", "raised"} /\ "file_type" \in DOMAIN call_out =>
        \A i \in 1..Len(call_args.jsonl_file) :
            LET record == call_args.jsonl_file[i]
            IN  /\ ValidLine(record) =>
                     \A value \in UndeclaredValues :
                        ValidLine(WithUndeclared(record, value))
                /\ (HasAll(ShapeRequired, record) /\ OutsideDeclaredType(record)) =>
                     /\ ~TypeCheck(Parsed(record))
                     /\ ~TypeCheck(Parsed([f \in ShapeRequired |-> record[f]]))
                     /\ call_pc = "raised"
                     /\ call_out.error.line_no <= i
                /\ (Len(call_args.jsonl_file) = 1 /\ ValidLine(record)
                        /\ call_out.file_type = "Subject-Task") =>
                     call_pc = "returned"

\* A loaded Subject-Task line that carries a state_id outside the five states: the
\* Subject-Task table declares no state_id.
C23_Witness ==
    /\ call_pc = "returned"
    /\ call_out.file_type = "Subject-Task"
    /\ \E i \in 1..Len(call_args.jsonl_file) :
          /\ "state_id" \in DOMAIN call_args.jsonl_file[i]
          /\ call_args.jsonl_file[i].state_id \notin state_ids

\* C24: optional_content is an untyped bag that is never validated: whether a record
\* is accepted does not depend on the value, or the kind of value, it holds under
\* optional_content, so a one-line file whose record is valid once optional_content
\* is set aside is loaded.
C24_OptionalContentNeverValidated ==
    call_pc \in {"returned", "raised"} /\ "file_type" \in DOMAIN call_out =>
        \A i \in 1..Len(call_args.jsonl_file) :
            LET record == call_args.jsonl_file[i]
            IN  ("optional_content" \in DOMAIN record
                    /\ ValidLine(Without(record, "optional_content"))) =>
                   /\ \A value \in UndeclaredValues :
                         ValidLine(Put(record, "optional_content", value))
                   /\ (Len(call_args.jsonl_file) = 1
                          /\ call_out.file_type = "Subject-Task") =>
                         call_pc = "returned"

---------------------------------------------------------------------------
(* Properties of load_csv_file (checked under SpecCsv) *)

HeaderAccepted == call_pc \in {"reading", "returned"} \/ "rows" \in DOMAIN call_out

HeaderRejected == call_pc = "raised" /\ "rows" \notin DOMAIN call_out

\* The texts the data row holds in the columns of the given name.
CellsUnder(name) ==
    { call_out.rows[1][j].value :
        j \in { k \in 1..Len(call_args.column_names) : call_args.column_names[k] = name } }

\* C25: the header is accepted exactly when its set of column names is the three
\* required names, or those and task_passing_score, whatever the extra columns are
\* and however they are listed; and a row whose task_passing_score cell is blank,
\* its time and score cells being numbers, is accepted.
C25_HeaderBySetBlankPassingScore ==
    /\ call_pc # "opened" =>
         LET names == Range(call_args.column_names)
             exact == \/ names = Range(required_column_names)
                      \/ names = Range(required_column_names)
                                    \cup Range(optional_column_names)
         IN  /\ HeaderAccepted <=> exact
             /\ HeaderRejected <=> ~exact
    /\ ("rows" \in DOMAIN call_out /\ call_out.rows # <<>>
           /\ CellsUnder("task_optimal_time_in_seconds") \subseteq FloatTexts
           /\ CellsUnder("task_maximum_score") \subseteq IntTexts
           /\ CellsUnder("task_passing_score") = {""}) =>
         call_pc # "raised"

\* The header in the order the positional conversion of the rows assumes.
InCorrectOrder(column_names) ==
    \/ column_names = required_column_names
    \/ column_names = required_column_names \o optional_column_names

\* The class of the values stored under a column name.
ConvertedAs(name, value) ==
    IF name = "task_optimal_time_in_seconds" THEN value.py_type = "float"
    ELSE IF name = "task_maximum_score" THEN value.py_type = "int"
    ELSE IF name = "task_passing_score"
    THEN value.py_type = "float" \/ value = Cell("")
    ELSE TRUE

\* C26: verify_column_names validates that the column names are correct and in the
\* correct order: a header with the right names in another order is rejected, so
\* load_csv_file never stores a value under a column name other than the one the
\* positional conversion assumed.
C26_HeaderOrderEnforced ==
    /\ HeaderAccepted => InCorrectOrder(call_args.column_names)
    /\ call_pc = "returned" =>
         \A task \in DOMAIN call_out.tasks :
            \A name \in DOMAIN call_out.tasks[task] :
               ConvertedAs(name, call_out.tasks[task][name])

---------------------------------------------------------------------------
(* Further properties of load_directory, second part (checked under SpecDir) *)

\* C27: at every point of load_directory, hence in the mapping it returns after any
\* sequence of merges, every record is stored under the key
\* "{subject_id}_{condition}_{task_id}" built from its own fields, and carries a
\* file_source naming a file of the directory, already visited, that loaded and
\* contained that key.
C27_KeyedByOwnFieldsWithSource ==
    \A key \in DOMAIN jsonl_contents :
        LET record == jsonl_contents[key]
        IN  /\ Identifier(record) = key
            /\ "file_source" \in DOMAIN record
            /\ record.file_source \in JsonlNames
            /\ \E i \in 1..Len(visited) : visited[i] = record.file_source
            /\ Loaded(record.file_source).err = ""
            /\ key \in DOMAIN Loaded(record.file_source).contents

\* A returned mapping with a record merged from two files, whose file_source is the
\* later visited of the two, beside a record that only one file contained.
C27_Witness ==
    /\ dpc = "returned"
    /\ Len(visited) >= 2
    /\ {visited[1], visited[2]} \subseteq JsonlNames
    /\ \E key \in DOMAIN jsonl_contents :
          /\ jsonl_contents[key].file_source = visited[2]
          /\ key \in DOMAIN Loaded(visited[1]).contents
          /\ HasTransitions(jsonl_contents[key])
          /\ ~HasTransitions(Loaded(visited[2]).contents[key])
    /\ Cardinality(DOMAIN jsonl_contents) >= 2

---------------------------------------------------------------------------
(* Properties of load_subject_task_file (checked under SpecJsonl) *)

\* C28: within one Subject-Task file, several lines of the same key never cause an
\* error: when every line is valid on its own the file is loaded, whichever keys
\* repeat, and the record returned for a key is the last line of that key,
\* whatever the earlier lines of the key held.
C28_LastLineOfKeyWins ==
    (call_pc \in {"returned", "raised"} /\ "file_type" \in DOMAIN call_out
        /\ call_out.file_type = "Subject-Task"
        /\ \A i \in 1..Len(call_args.jsonl_file) : ValidLine(call_args.jsonl_file[i])) =>
        LET file == call_args.jsonl_file
        IN  /\ call_pc = "returned"
            /\ DOMAIN call_out.contents = { Identifier(file[i]) : i \in 1..Len(file) }
            /\ \A i \in 1..Len(file) :
                  (\A j \in (i + 1)..Len(file) :
                       Identifier(file[j]) # Identifier(file[i])) =>
                     call_out.contents[Identifier(file[i])] = Parsed(file[i])

\* Two different lines of one key: the second is the record returned.
C28_Witness ==
    /\ call_pc = "returned"
    /\ call_out.file_type = "Subject-Task"
    /\ Len(call_args.jsonl_file) = 2
    /\ Identifier(call_args.jsonl_file[1]) = Identifier(call_args.jsonl_file[2])
    /\ call_args.jsonl_file[1].task_total_time # call_args.jsonl_file[2].task_total_time
    /\ call_out.contents[Identifier(call_args.jsonl_file[2])].task_total_time
          = call_args.jsonl_file[2].task_total_time

---------------------------------------------------------------------------
(* Properties of load_state_transitions_file, third part (checked under Spec) *)

\* The numbers of the accepted lines that belong to the key.
KeyLineNumbers(key) ==
    { i \in 1..Len(lines) : Identifier(ParsedLines[i]) = key }

\* The k-th smallest of a set of line numbers.
Nth(numbers, k) ==
    CHOOSE i \in numbers : Cardinality({ j \in numbers : j < i }) = k - 1

\* The record holds the key's lines, each once, in file order, and starts at the
\* first of them.
InFileOrder(record, key) ==
    LET seq == record.state_transitions
        numbers == KeyLineNumbers(key)
    IN  /\ Len(seq) = Cardinality(numbers)
        /\ \A k \in 1..Len(seq) : seq[k] = ParsedLines[Nth(numbers, k)]
        /\ record.task_start_time = ParsedLines[Nth(numbers, 1)].utc_timestamp

\* C29: the embedded state_transitions of a record of load_state_transitions_file
\* holds exactly the file's events of the record's key, each once, in the order of
\* the file's lines, never re-sorted by timestamp, and task_start_time is the
\* timestamp of the key's first event in file order; this holds of the records
\* being built after every line and of the records returned.
C29_EventsInFileOrder ==
    /\ pc = "reading" =>
         /\ DOMAIN state_transitions = FileKeys
         /\ \A key \in DOMAIN state_transitions :
               InFileOrder(state_transitions[key], key)
    /\ pc = "returned" =>
         /\ DOMAIN result = FileKeys
         /\ \A key \in DOMAIN result : InFileOrder(result[key], key)

\* A returned record whose events are not in timestamp order: the second event is
\* earlier than the first, and task_start_time is the first event's timestamp.
C29_Witness ==
    /\ pc = "returned"
    /\ \E key \in DOMAIN result :
          LET seq == result[key].state_transitions
          IN  /\ Len(seq) >= 3
              /\ seq[2].utc_timestamp < seq[1].utc_timestamp
              /\ result[key].task_start_time = seq[1].utc_timestamp

---------------------------------------------------------------------------
(* Properties of filter_jsonl_input (checked under SpecFilter) *)

\* The record's fields equal every parameter that is given.
MatchesParameters(record) ==
    /\ call_args.subject # None => record.subject_id = call_args.subject
    /\ call_args.condition # None => <<record.condition>> = call_args.condition
    /\ call_args.task # None => record.task_id = call_args.task

\* C30: filter_jsonl_input returns all and only the entries that match the
\* parameters: the result is exactly the set of entries whose record has the given
\* subject_id, condition and task_id (for each parameter given), whatever the
\* identifiers are, including ones that contain "_" or a condition name.
C30_FilterReturnsExactMatches ==
    call_pc = "returned" =>
        /\ DOMAIN call_out =
              { key \in DOMAIN call_args.jsonl_input :
                    MatchesParameters(call_args.jsonl_input[key]) }
        /\ \A key \in DOMAIN call_out : call_out[key] = call_args.jsonl_input[key]

---------------------------------------------------------------------------
(* Properties of load_state_transitions_file, fourth part (checked under Spec) *)

\* The pairs of states verify_state_transition_valid accepts.
AcceptedPairs ==
    { pair \in state_ids \X state_ids : verify_state_transition_valid(pair[1], pair[2]) }

\* C31: verify_state_transition_valid accepts a pair (from, to) exactly when it is
\* one of the 14 edges of the specification: the only self-loop is on
\* task_execution, no edge leaves task_conclusion, no edge enters task_initialized;
\* and so, of a next line of a key whose timestamp passes the ordering check, the
\* loader raises the invalid-transition error exactly when the pair is not an edge.
C31_ExactlyFourteenEdges ==
    [] ( /\ Cardinality(AcceptedPairs) = 14
         /\ \A pair \in state_ids \X state_ids :
               pair \in AcceptedPairs <=> LegalEdge(pair[1], pair[2])
         /\ \A pair \in AcceptedPairs :
               /\ pair[1] = pair[2] => pair[1] = "task_execution"
               /\ pair[1] # "task_conclusion"
               /\ pair[2] # "task_initialized"
         /\ pc = "reading" =>
               \A raw \in WellFormedEvents :
                  LET key == Identifier(raw)
                  IN  ( /\ key \in DOMAIN subject_task_state
                        /\ verify_timestamps_inorder(
                               subject_task_state[key].utc_timestamp,
                               iso_str_as_datetime(raw.utc_timestamp),
                               subject_task_state[key].state_id) )
                      => LET error == LineError(subject_task_state, raw)
                             edge == LegalEdge(subject_task_state[key].state_id,
                                               raw.state_id)
                         IN  /\ error = "" <=> edge
                             /\ error = "invalid_transition" <=> ~edge )

\* A returned session that took the self-loop on task_execution.
C31_Witness ==
    /\ pc = "returned"
    /\ \E key \in DOMAIN result :
          LET seq == result[key].state_transitions
          IN  \E i \in 1..(Len(seq) - 1) :
                 /\ seq[i].state_id = "task_execution"
                 /\ seq[i + 1].state_id = "task_execution"

---------------------------------------------------------------------------
(* Further properties of load_jsonl_file (checked under SpecJsonl) *)

\* The lines after the first that lack a required field of the identified shape.
LinesOffShape ==
    { i \in 2..Len(call_args.jsonl_file) :
          ~HasAll(ShapeRequired, call_args.jsonl_file[i]) }

\* C32: the shape chosen from the first line governs the whole file: every line is
\* validated against that shape, so a file identified as State-Transition with a
\* later line lacking a required State-Transition field (even a line that is a
\* valid Subject-Task record), or the other way round, fails to load, at that line
\* or before it, and yields no records; a file that loads has every line of the
\* identified shape.
C32_ShapeGovernsWholeFile ==
    (call_pc \in {"returned", "raised"} /\ "file_type" \in DOMAIN call_out) =>
        /\ LinesOffShape # {} =>
              /\ call_pc = "raised"
              /\ "contents" \notin DOMAIN call_out
              /\ \A i \in LinesOffShape : call_out.error.line_no <= i
              /\ (call_out.error.kind = "missing_field")
                    => call_out.error.line_no \in LinesOffShape
              /\ IF call_out.file_type = "Subject-Task"
                 THEN load_subject_task_file(call_args.jsonl_file).contents = EmptyMap
                 ELSE load_state_transitions_file(call_args.jsonl_file).contents
                         = EmptyMap
        /\ call_pc = "returned" => LinesOffShape = {}

\* A file opened by a State-Transition event whose second line is a valid
\* Subject-Task record: the load fails at line 2 for the missing field.
C32_Witness ==
    /\ call_pc = "raised"
    /\ "file_type" \in DOMAIN call_out
    /\ call_out.file_type = "State Transitions"
    /\ Len(call_args.jsonl_file) = 2
    /\ HasAll(SubjectTaskRequired, call_args.jsonl_file[2])
    /\ SubjectTaskLineError(call_args.jsonl_file[2]) = ""
    /\ call_out.error.kind = "missing_field"
    /\ call_out.error.line_no = 2

---------------------------------------------------------------------------
(* Further properties of load_directory, third part (checked under SpecDir) *)

\* A warning without the order in which it names its two sources.
Unordered(warning) ==
    [ field |-> warning.field, entry |-> warning.entry,
      sources |-> { <<warning.recorded, warning.recorded_file>>,
                    <<warning.new, warning.new_file>> } ]

UnorderedWarnings(printed) == { Unordered(warning) : warning \in printed }

\* load_directory is over, on a directory with exactly two .jsonl files and no
\* task_metadata.csv.
TwoFilesDone ==
    /\ dpc \in {"returned", "raised"}
    /\ Cardinality(JsonlNames) = 2
    /\ task_metadata_csv \notin DOMAIN dir_files

\* The shapes of the two .jsonl files, when both load.
ShapesOfTwo ==
    { IF \E key \in DOMAIN Loaded(f).contents : HasTransitions(Loaded(f).contents[key])
      THEN "State Transitions" ELSE "Subject-Task" : f \in JsonlNames }

\* C33 (as claimed): for a directory with exactly two .jsonl files, visiting them in
\* either order gives the same success-or-failure outcome, the same set of
\* warnings (each naming the same entry, field, values and files) and, on
\* success, the same mapping of session key to record, ignoring file_source.
C33_PairwiseCommutativeWithWarnings ==
    TwoFilesDone =>
        \A order \in Orders(JsonlNames) :
           LET other == LoadDirectory(order)
           IN  /\ (other.err = NoError) <=> (dpc = "returned")
               /\ UnorderedWarnings(other.warnings) = UnorderedWarnings(warnings)
               /\ dpc = "returned" => SameMapping(other.contents, jsonl_contents)

\* C33 (amended): the two orders give the same success-or-failure outcome; when the
\* load succeeds they give the same mapping of session key to record, ignoring
\* file_source, and the same warnings up to the order in which a warning names its
\* two sources. When the load fails, a failure within a file happens in both orders
\* and a conflict in one order is a conflict in the other, but the warnings printed
\* before the exception are only those of the entries met before the first
\* conflict, which depend on the order.
C33_PairwiseCommutative ==
    TwoFilesDone =>
        \A order \in Orders(JsonlNames) :
           LET other == LoadDirectory(order)
           IN  /\ (other.err = NoError) <=> (dpc = "returned")
               /\ dpc = "returned" =>
                     /\ SameMapping(other.contents, jsonl_contents)
                     /\ UnorderedWarnings(other.warnings) = UnorderedWarnings(warnings)
               /\ dpc = "raised" =>
                     /\ (other.err.kind = "conflict") <=> (derr.kind = "conflict")
                     /\ \A warning \in other.warnings \cup warnings :
                           {warning.recorded_file, warning.new_file} = JsonlNames

\* A successful load of a State-Transition file and a Subject-Task file of one
\* session whose totals differ beyond the tolerance: one warning, in either order.
C33_Witness ==
    /\ TwoFilesDone
    /\ dpc = "returned"
    /\ ShapesOfTwo = {"State Transitions", "Subject-Task"}
    /\ warnings # {}
    /\ \E key \in DOMAIN jsonl_contents : HasTransitions(jsonl_contents[key])

\* The positions of the visited .jsonl files that load with a sequence for the key.
PositionsWithSequence(key) ==
    { i \in 1..Len(visited) :
         /\ FileExt(visited[i]) = ".jsonl"
         /\ Loaded(visited[i]).err = ""
         /\ key \in DOMAIN Loaded(visited[i]).contents
         /\ HasTransitions(Loaded(visited[i]).contents[key]) }

FirstPosition(positions) == CHOOSE i \in positions : \A j \in positions : i <= j

\* A step keeps the sequence of every key whose accumulated record carries one.
SequencesKept ==
    \A key \in DOMAIN jsonl_contents :
       HasTransitions(jsonl_contents[key]) =>
          /\ key \in DOMAIN jsonl_contents'
          /\ HasTransitions(jsonl_contents'[key])
          /\ jsonl_contents'[key].state_transitions
                = jsonl_contents[key].state_transitions

\* C38: once the accumulated record of a key carries state_transitions, no later
\* file replaces or alters the sequence; in every successful run the sequence
\* returned for a key is the one derived from the first State-Transition file
\* visited that contains the key.
C38_SequenceWrittenOnce ==
    /\ [][SequencesKept]_vars
    /\ [] ( dpc = "returned" =>
               \A key \in DOMAIN jsonl_contents :
                  /\ HasTransitions(jsonl_contents[key]) <=> PositionsWithSequence(key) # {}
                  /\ HasTransitions(jsonl_contents[key]) =>
                        jsonl_contents[key].state_transitions
                           = Loaded(visited[FirstPosition(PositionsWithSequence(key))])
                                .contents[key].state_transitions )

\* A successful run that visited two State-Transition files of a key and then a
\* Subject-Task file of the key, whose record replaced the accumulated one.
C38_Witness ==
    /\ dpc = "returned"
    /\ \E key \in DOMAIN jsonl_contents :
          \E i, j, k \in 1..Len(visited) :
             /\ i < k /\ k < j
             /\ {i, k} \subseteq PositionsWithSequence(key)
             /\ FileExt(visited[j]) = ".jsonl"
             /\ key \in DOMAIN Loaded(visited[j]).contents
             /\ ~HasTransitions(Loaded(visited[j]).contents[key])

\* The .jsonl files visited so far, in the order of their visits.
JsonlVisited == SelectSeq(visited, LAMBDA filename : FileExt(filename) = ".jsonl")

\* The files visited so far that load_directory neither loads as .jsonl nor as
\* task_metadata.csv.
IgnoredVisited ==
    { visited[i] : i \in 1..Len(visited) } \ (JsonlNames \cup {task_metadata_csv})

MetadataVisited == \E i \in 1..Len(visited) : visited[i] = task_metadata_csv

\* What load_csv_file gives for the directory's task_metadata.csv (its header has
\* the required names only, so there is one listing of the extra names).
MetadataLoaded == load_csv_file(dir_files[task_metadata_csv], <<>>)

---------------------------------------------------------------------------
(* Properties of load_state_transitions_file, fifth part (checked under Spec) *)

\* C34: in every record of a successful load, task_total_time is the timestamp of
\* the session's last event minus task_start_time, the timestamp of its first
\* event, whatever the accepted sequence is; while the file is read, the total
\* accumulated for a key is the timestamp of its latest event minus its start.
C34_TotalIsLastMinusStart ==
    [] ( /\ pc = "returned" =>
               \A key \in DOMAIN result :
                  LET evs == KeyEvents(key)
                  IN  /\ result[key].task_start_time = evs[1].utc_timestamp
                      /\ result[key].task_total_time
                            = evs[Len(evs)].utc_timestamp - result[key].task_start_time
         /\ pc = "reading" =>
               \A key \in DOMAIN state_transitions :
                  state_transitions[key].task_total_time
                     = subject_task_state[key].utc_timestamp
                          - state_transitions[key].task_start_time )

\* A returned session of at least three events with time spent in task_initialized.
C34_Witness ==
    /\ pc = "returned"
    /\ \E key \in DOMAIN result :
          LET evs == KeyEvents(key)
          IN  /\ Len(evs) >= 3
              /\ evs[2].utc_timestamp > evs[1].utc_timestamp
              /\ result[key].task_total_time > evs[2].utc_timestamp - evs[1].utc_timestamp


\* C35: in every record of a successful load, km_pull_total_time plus
\* km_push_total_time is at most task_total_time.
C35_ActivityTimesWithinTotal ==
    pc = "returned" =>
        \A key \in DOMAIN result :
           result[key].km_pull_total_time + result[key].km_push_total_time
              <= result[key].task_total_time

---------------------------------------------------------------------------
(* Further properties of load_jsonl_file, second part (checked under SpecJsonl) *)

Triple(input) == <<input.subject_id, input.condition, input.task_id>>

\* C36: the session-key string is a unique key for the triple: two lines of a
\* loaded file with different (subject_id, condition, task_id) never get the same
\* key, so every returned record gathers the lines of one triple only.
C36_KeyUniqueForTriple ==
    call_pc = "returned" =>
        \A i, j \in 1..Len(call_args.jsonl_file) :
           LET first == call_args.jsonl_file[i]
               second == call_args.jsonl_file[j]
           IN  Triple(first) # Triple(second) => Identifier(first) # Identifier(second)

---------------------------------------------------------------------------
(* Properties of load_state_transitions_file, sixth part (checked under Spec) *)

\* The keys whose latest accepted event is task_conclusion.
ConcludedKeys ==
    { key \in DOMAIN subject_task_state :
         subject_task_state[key].state_id = "task_conclusion" }

\* C37: every returned sequence has at least two events, with task_initialized at
\* its first position only and task_conclusion at its last position only; a line
\* for a key whose latest event is task_conclusion is rejected, whatever its state
\* and timestamp, so no accepted line of a key follows the key's task_conclusion.
C37_SingleAttemptPerKey ==
    [] ( /\ pc = "returned" =>
               \A key \in DOMAIN result :
                  LET seq == result[key].state_transitions
                  IN  /\ Len(seq) >= 2
                      /\ \A i \in 1..Len(seq) :
                            /\ (seq[i].state_id = "task_initialized") <=> (i = 1)
                            /\ (seq[i].state_id = "task_conclusion") <=> (i = Len(seq))
         /\ \A key \in FileKeys :
               LET evs == KeyEvents(key)
               IN  \A i \in 1..(Len(evs) - 1) : evs[i].state_id # "task_conclusion"
         /\ pc = "reading" =>
               \A raw \in RawLines :
                  ( /\ verify_all_state_transition_fields_present(raw)
                    /\ Identifier(raw) \in ConcludedKeys )
                  => LineError(subject_task_state, raw) # "" )

\* A load that stopped at a line for the one key read so far, which had concluded:
\* the line was refused as an illegal transition.
C37_Witness ==
    /\ pc = "raised"
    /\ err = "invalid_transition"
    /\ DOMAIN subject_task_state = ConcludedKeys
    /\ Cardinality(ConcludedKeys) = 1

=============================================================================
